---- MODULE Spec2Model ----
(***************************************************************************)
(* Glockit: a declarative REST API benchmarking engine.                    *)
(*                                                                         *)
(* The model covers the execution engine of class Glockit: the dependency  *)
(* resolver (resolveDependencies), the run orchestrator (run) and the      *)
(* per-endpoint scheduler (benchmarkEndpoint) with its concurrent workers  *)
(* (executeRequest), the request executor (makeRequest) and the variable   *)
(* extraction (extractVariables).                                          *)
(*                                                                         *)
(* JavaScript runs one task at a time: the code between two awaits is one  *)
(* atomic step. Each action below is one such step.                        *)
(***************************************************************************)
EXTENDS Integers, Sequences, FiniteSets, TLC

(***************************************************************************)
(* Bounds of the model.                                                    *)
(***************************************************************************)
\* Longest endpoint list given to resolveDependencies.
MaxEndpoints == 3

\* Largest global.maxRequests and largest global.concurrent of a run of one
\* endpoint (global.concurrent 0: not configured).
MaxRequests == 2

MaxConcurrent == 2

\* The clock runs from Epoch to Epoch + MaxTime, and one millisecond longer
\* for each endpoint of the run after the first.
MaxTime == 3

\* The values global.duration, global.throttle, global.timeout and the
\* constructor's delay are drawn from (0: not configured).
Durations == {0, 2}

Throttles == {0, 1}

Timeouts == {2}

Delays == {0, 2}

\* The endpoint names, in the order the input list holds them.
AllNames == <<"A", "B", "C", "D", "E">>

VARIABLES
    endpoints,          \* validatedConfig.endpoints: the input list
    rpc,                \* position inside resolveDependencies
    resolved,           \* resolveDependencies: const resolved
    remaining,          \* resolveDependencies: const remaining
    before,             \* resolveDependencies: const before
    i,                  \* resolveDependencies: loop index (1-based here)
    warned,             \* console.warn of the circular-dependency branch was called
    passes,             \* number of iterations of the while loop so far
    processedEndpoints, \* run: const processedEndpoints (the returned order)
    global,             \* validatedConfig.global
    requestDelay,       \* Glockit.requestDelay (set by the constructor)
    variables,          \* Glockit.variables: the Variable Environment
    clock,              \* Date.now(), in milliseconds
    runpc,              \* position inside run
    epIdx,              \* run: index of the current endpoint in processedEndpoints
    runResults,         \* run: const results (one EndpointResult per endpoint)
    summary,            \* run: const summary
    startTime,          \* benchmarkEndpoint: const startTime
    results,            \* benchmarkEndpoint: const results
    lastRequestTime,    \* benchmarkEndpoint: let lastRequestTime
    spawned,            \* benchmarkEndpoint: number of executeRequest() calls made
    wpc,                \* per worker: where its executeRequest is suspended
    wtime,              \* per worker: the time its timer is due / its request was sent
    sent,               \* per worker: makeRequest's url, headers and body after substitution
    started,            \* requests dispatched for the current endpoint so far
    startGap,           \* the smallest time between two successive dispatches so far
    extractions,        \* calls of extractVariables for the current endpoint so far
    errors,             \* benchmarkEndpoint: const errors
    call                \* the last call of a method made on its own, with what it gave

resolverVars == <<endpoints, rpc, resolved, remaining, before, i, warned, passes,
                  processedEndpoints>>

configVars == <<global, requestDelay>>

runVars == <<variables, clock, runpc, epIdx, runResults, summary>>

benchVars == <<startTime, results, lastRequestTime, spawned, wpc, wtime, sent, started,
               startGap, extractions, errors>>

callVars == <<call>>

vars == <<resolverVars, configVars, runVars, benchVars, callVars>>

(***************************************************************************)
(* Helpers on sequences.                                                   *)
(***************************************************************************)
\* Array.prototype.splice(k, 1) with a 1-based index.
Splice(s, k) == [j \in 1..(Len(s) - 1) |-> IF j < k THEN s[j] ELSE s[j + 1]]

\* The position of the endpoint called name in list s (0 when absent).
PosOf(s, name) ==
    IF \E k \in DOMAIN s : s[k].name = name
    THEN CHOOSE k \in DOMAIN s : s[k].name = name
    ELSE 0

(***************************************************************************)
(* JavaScript values.  A value carries its type; a string is the sequence  *)
(* of its characters; an object is a function from its own keys to values; *)
(* a Map is the sequence of its entries in insertion order.                *)
(***************************************************************************)
Undefined == [t |-> "undefined"]

Null == [t |-> "null"]

Str(s) == [t |-> "string", s |-> s]

Num(n) == [t |-> "number", n |-> n]

Bool(b) == [t |-> "boolean", b |-> b]

Arr(a) == [t |-> "array", a |-> a]

Obj(f) == [t |-> "object", f |-> f]

\* The strings that name an array index below 10, and the index they name.
Digits == <<"0", "1", "2", "3", "4", "5", "6", "7", "8", "9">>

IsIndex(key) == Len(key) = 1 /\ \E d \in DOMAIN Digits : Digits[d] = key[1]

IndexOf(key) == (CHOOSE d \in DOMAIN Digits : Digits[d] = key[1]) - 1

LengthKey == <<"l", "e", "n", "g", "t", "h">>

\* String.prototype.split(sep) for a separator of one character.
RECURSIVE SplitOn(_, _)
SplitOn(s, sep) ==
    IF \A k \in DOMAIN s : s[k] # sep THEN <<s>>
    ELSE LET k == CHOOSE k \in DOMAIN s : s[k] = sep /\ \A j \in 1..(k - 1) : s[j] # sep
         IN  <<SubSeq(s, 1, k - 1)>> \o SplitOn(SubSeq(s, k + 1, Len(s)), sep)

\* current?.[key]: undefined on undefined and null; an own property of an
\* object; an element or the length of an array or a string (arrays and
\* strings here are shorter than 10); undefined otherwise.
OptionalMember(current, key) ==
    IF current.t = "object"
    THEN IF key \in DOMAIN current.f THEN current.f[key] ELSE Undefined
    ELSE IF current.t = "array"
    THEN IF key = LengthKey THEN Num(Len(current.a))
         ELSE IF IsIndex(key) /\ IndexOf(key) < Len(current.a)
         THEN current.a[IndexOf(key) + 1]
         ELSE Undefined
    ELSE IF current.t = "string"
    THEN IF key = LengthKey THEN Num(Len(current.s))
         ELSE IF IsIndex(key) /\ IndexOf(key) < Len(current.s)
         THEN Str(<<current.s[IndexOf(key) + 1]>>)
         ELSE Undefined
    ELSE Undefined

\* keys.reduce((current, key) => current?.[key], obj)
RECURSIVE ReduceKeys(_, _)
ReduceKeys(current, keys) ==
    IF keys = <<>> THEN current
    ELSE ReduceKeys(OptionalMember(current, Head(keys)), Tail(keys))

\* A faulty variant of GetValueByPath: the path is looked up as one key.
GetValueByPathFlat(obj, path) == OptionalMember(obj, path)

\* getValueByPath: path.split('.').reduce((current, key) => current?.[key], obj)
GetValueByPath(obj, path) == ReduceKeys(obj, SplitOn(path, "."))

\* this.variables.has(name), this.variables.get(name)
HasVariable(env, name) == \E k \in DOMAIN env : env[k].key = name

GetVariable(env, name) ==
    IF HasVariable(env, name)
    THEN env[CHOOSE k \in DOMAIN env : env[k].key = name].value
    ELSE Undefined

\* this.variables.set(name, value): a key already in the Map keeps its place.
SetVariable(env, name, value) ==
    IF HasVariable(env, name)
    THEN [k \in DOMAIN env |->
             IF env[k].key = name THEN [key |-> name, value |-> value] ELSE env[k]]
    ELSE Append(env, [key |-> name, value |-> value])

(***************************************************************************)
(* Configurations ConfigValidator.validate accepts: a non-empty list,      *)
(* pairwise distinct names, every dependency names another endpoint of the *)
(* list.                                                                   *)
(***************************************************************************)
NamesOf(n) == {AllNames[k] : k \in 1..n}

ValidEndpointLists(maxLen) ==
    UNION {
        {eps \in [1..n -> [name : NamesOf(n), dependencies : SUBSET NamesOf(n)]] :
            \A k \in 1..n :
                /\ eps[k].name = AllNames[k]
                /\ eps[k].name \notin eps[k].dependencies}
        : n \in 1..maxLen}

\* The strings the endpoints of a run and their responses use.
IdPath == <<"i", "d">>

MsgPath == <<"m", "s", "g">>

UserId == <<"u", "s", "e", "r", "I", "d">>

\* An endpoint of a run. An endpoint without dependencies extracts the
\* variable userId from path id of its response body, an endpoint with
\* dependencies uses it in its url; neither has headers or a body, and the
\* per-endpoint overrides of maxRequests and throttle are not set (0).
RunEndpoint(name, deps) ==
    [name |-> name,
     dependencies |-> deps,
     variables |-> IF deps = {}
                   THEN <<[name |-> UserId, path |-> IdPath, from |-> "response"]>>
                   ELSE <<>>,
     url |-> IF deps = {} THEN <<"/">> ELSE <<"/", "{", "{">> \o UserId \o <<"}", "}">>,
     headers |-> Undefined,
     body |-> Undefined,
     maxRequests |-> 0,
     throttle |-> 0]

\* The endpoint list of a run of one endpoint.
BenchEndpointLists == {<<RunEndpoint("A", {})>>}

\* The endpoint list of a run of two endpoints: the dependent endpoint is
\* listed before the endpoint it depends on.
RunEndpointLists == {<<RunEndpoint("A", {"B"}), RunEndpoint("B", {})>>}

\* The policies of a run of two endpoints: global and the constructor's delay.
RunPolicies ==
    {[global |-> [maxRequests |-> 2, concurrent |-> 2, duration |-> 0, throttle |-> 0,
                  timeout |-> 2],
      delay |-> 0],
     [global |-> [maxRequests |-> 2, concurrent |-> 2, duration |-> 0, throttle |-> 1,
                  timeout |-> 2],
      delay |-> 2],
     [global |-> [maxRequests |-> 1, concurrent |-> 2, duration |-> 2, throttle |-> 0,
                  timeout |-> 2],
      delay |-> 0]}

MaxOf(S) == CHOOSE x \in S : \A y \in S : y <= x

\* Date.now() when run is called: above every configured delay, so that the
\* first request of an endpoint (lastRequestTime = 0) is never delayed.
Epoch == MaxOf(Delays) + 1

(***************************************************************************)
(* resolveDependencies                                                     *)
(***************************************************************************)
\* A faulty variant of AllDepsResolved: the dependencies are not looked at.
AllDepsResolvedUnchecked(endpoint, res) == TRUE

\* A faulty variant of AllDepsResolved: some() in place of every().
AllDepsResolvedSome(endpoint, res) ==
    \/ endpoint.dependencies = {}
    \/ \E dep \in endpoint.dependencies : \E k \in DOMAIN res : res[k].name = dep

\* dependencies.every(dep => resolved.some(r => r.name === dep))
AllDepsResolved(endpoint, res) ==
    \A dep \in endpoint.dependencies : \E k \in DOMAIN res : res[k].name = dep

\* remaining.splice(i, 1) after the endpoint was pushed to resolved
AfterMove(rem, k) == Splice(rem, k)

\* A faulty variant of AppendRemaining: the remaining endpoints are dropped.
AppendRemainingDrop(res, rem) == res

\* A faulty variant of AppendRemaining: the remaining endpoints are appended backwards.
AppendRemainingReversed(res, rem) ==
    res \o [j \in 1..Len(rem) |-> rem[Len(rem) + 1 - j]]

\* resolved.push(...remaining)
AppendRemaining(res, rem) == res \o rem

\* const resolved = []; const remaining = [...endpoints];
ResolveStart ==
    /\ runpc = "resolve"
    /\ rpc = "start"
    /\ resolved' = <<>>
    /\ remaining' = endpoints
    /\ rpc' = "while"
    /\ UNCHANGED <<endpoints, before, i, warned, passes, processedEndpoints>>
    /\ UNCHANGED <<configVars, callVars, runVars, benchVars>>

\* while (remaining.length > 0) { const before = remaining.length; for (let i = ...
WhileCheck ==
    /\ rpc = "while"
    /\ IF Len(remaining) > 0
       THEN /\ before' = Len(remaining)
            /\ i' = Len(remaining)
            /\ passes' = passes + 1
            /\ rpc' = "for"
       ELSE /\ rpc' = "return"
            /\ UNCHANGED <<before, i, passes>>
    /\ UNCHANGED <<endpoints, resolved, remaining, warned, processedEndpoints>>
    /\ UNCHANGED <<configVars, callVars, runVars, benchVars>>

\* One iteration of for (let i = remaining.length - 1; i >= 0; i--).
ForStep ==
    /\ rpc = "for"
    /\ i >= 1
    /\ IF AllDepsResolved(remaining[i], resolved)
       THEN /\ resolved' = Append(resolved, remaining[i])
            /\ remaining' = AfterMove(remaining, i)
       ELSE UNCHANGED <<resolved, remaining>>
    /\ i' = i - 1
    /\ UNCHANGED <<endpoints, rpc, before, warned, passes, processedEndpoints>>
    /\ UNCHANGED <<configVars, callVars, runVars, benchVars>>

\* The for loop is over: if (remaining.length === before) { warn; push; break; }
PassEnd ==
    /\ rpc = "for"
    /\ i = 0
    /\ IF Len(remaining) = before
       THEN /\ warned' = TRUE
            /\ resolved' = AppendRemaining(resolved, remaining)
            /\ rpc' = "return"
       ELSE /\ rpc' = "while"
            /\ UNCHANGED <<warned, resolved>>
    /\ UNCHANGED <<endpoints, remaining, before, i, passes, processedEndpoints>>
    /\ UNCHANGED <<configVars, callVars, runVars, benchVars>>

\* return resolved; back in run: const processedEndpoints = ...; the endpoint
\* loop starts with the first endpoint.
ResolveReturn ==
    /\ rpc = "return"
    /\ processedEndpoints' = resolved
    /\ rpc' = "done"
    /\ runpc' = "loop"
    /\ epIdx' = 1
    /\ UNCHANGED <<endpoints, resolved, remaining, before, i, warned, passes>>
    /\ UNCHANGED <<configVars, callVars, variables, clock, runResults, summary, benchVars>>

(***************************************************************************)
(* benchmarkEndpoint: the policy of one endpoint.  A numeric option that   *)
(* is not configured is 0 here (undefined and 0 are both falsy in the      *)
(* code's || chains).                                                      *)
(***************************************************************************)
Min(a, b) == IF a < b THEN a ELSE b

Max(a, b) == IF a > b THEN a ELSE b

DefaultMaxRequests == 10

\* The safety limit of the duration mode: 10,000 requests.
SafetyCap == 10000

DefaultTimeout == 15000

\* const maxRequests = endpoint.maxRequests || globalConfig?.maxRequests || 10;
MaxRequestsOf(endpoint, g) ==
    IF endpoint.maxRequests # 0 THEN endpoint.maxRequests
    ELSE IF g.maxRequests # 0 THEN g.maxRequests
    ELSE DefaultMaxRequests

\* A numeric option as the policy operators read it: 0 when it is not set.
NumberOrZero(option) == IF option = Undefined THEN 0 ELSE option.n

\* constructor(delay: number = 1000): the default of the delay parameter.
DefaultDelay == 1000

\* this.requestDelay = Math.max(0, delay), with delay a number or undefined
\* (no argument given).
ConstructorDelay(delay) ==
    Max(0, IF delay = Undefined THEN DefaultDelay ELSE delay.n)

\* const requestDelay = Math.max(endpoint.requestDelay ?? globalConfig?.requestDelay ?? 0,
\*                                this.requestDelay): the local of benchmarkEndpoint,
\* which is logged; the options are numbers or undefined.
RequestDelayOf(endpointDelay, globalDelay, classDelay) ==
    Max(IF endpointDelay # Undefined THEN endpointDelay.n
        ELSE IF globalDelay # Undefined THEN globalDelay.n
        ELSE 0,
        classDelay)

\* const throttle = endpoint.throttle || globalConfig?.throttle || 0;
ThrottleOf(endpoint, g) ==
    IF endpoint.throttle # 0 THEN endpoint.throttle ELSE g.throttle

\* const timeout = globalConfig?.timeout || 15000;
TimeoutOf(g) == IF g.timeout # 0 THEN g.timeout ELSE DefaultTimeout

\* globalConfig?.concurrent || 1
ConfiguredConcurrent(g) == IF g.concurrent # 0 THEN g.concurrent ELSE 1

\* A faulty variant of EffectiveConcurrent: max() in place of min().
EffectiveConcurrentMax(endpoint, g) ==
    Max(ConfiguredConcurrent(g), MaxRequestsOf(endpoint, g))

\* const concurrent = Math.min(globalConfig?.concurrent || 1, maxRequests);
\* const effectiveConcurrent = Math.min(concurrent, maxRequests);
EffectiveConcurrent(endpoint, g) ==
    Min(Min(ConfiguredConcurrent(g), MaxRequestsOf(endpoint, g)),
        MaxRequestsOf(endpoint, g))

\* const useDuration = duration && duration > 0;
UseDuration(g) == g.duration # 0 /\ g.duration > 0

\* A faulty variant of ShouldContinue: the duration mode also stops at maxRequests.
ShouldContinueBoth(endpoint, g, res, start, now) ==
    /\ Len(res) < MaxRequestsOf(endpoint, g)
    /\ UseDuration(g) => (now - start) < g.duration

\* A faulty variant of ShouldContinue: <= in place of < in the count mode.
ShouldContinueOffByOne(endpoint, g, res, start, now) ==
    IF UseDuration(g)
    THEN (now - start) < g.duration
    ELSE Len(res) <= MaxRequestsOf(endpoint, g)

\* shouldContinue(): elapsed < duration in duration mode, else
\* results.length < maxRequests.
ShouldContinue(endpoint, g, res, start, now) ==
    IF UseDuration(g)
    THEN (now - start) < g.duration
    ELSE Len(res) < MaxRequestsOf(endpoint, g)

(***************************************************************************)
(* replaceVariables and replaceVariablesInObject.  A function that may     *)
(* throw gives Returned(value) or Threw(message).                          *)
(***************************************************************************)
Returned(value) == [threw |-> FALSE, value |-> value]

Threw(message) == [threw |-> TRUE, message |-> message]

\* The decimal digits of a natural number.
RECURSIVE DecimalOf(_)
DecimalOf(n) ==
    IF n < 10 THEN <<Digits[n + 1]>>
    ELSE DecimalOf(n \div 10) \o <<Digits[(n % 10) + 1]>>

\* String(value); the numbers here are natural numbers. An array gives its
\* elements joined by commas, null and undefined elements giving "".
RECURSIVE StringOf(_)
StringOf(value) ==
    IF value.t = "string" THEN value.s
    ELSE IF value.t = "number" THEN DecimalOf(value.n)
    ELSE IF value.t = "boolean"
    THEN IF value.b THEN <<"t", "r", "u", "e">> ELSE <<"f", "a", "l", "s", "e">>
    ELSE IF value.t = "null" THEN <<"n", "u", "l", "l">>
    ELSE IF value.t = "undefined" THEN <<"u", "n", "d", "e", "f", "i", "n", "e", "d">>
    ELSE IF value.t = "object"
    THEN <<"[", "o", "b", "j", "e", "c", "t", " ", "O", "b", "j", "e", "c", "t", "]">>
    ELSE IF value.a = <<>> THEN <<>>
    ELSE LET first == IF value.a[1].t \in {"null", "undefined"} THEN <<>>
                      ELSE StringOf(value.a[1])
         IN  IF Len(value.a) = 1 THEN first
             ELSE first \o <<",">> \o StringOf(Arr(Tail(value.a)))

\* new RegExp(`{{${key}}}`, 'g'): a key of letters makes the pattern the
\* literal marker {{key}}; a key holding "(" (and no ")") makes the source
\* no regular expression and the constructor throws a SyntaxError.
InvalidPattern(key) == \E k \in DOMAIN key : key[k] = "("

Marker(key) == <<"{", "{">> \o key \o <<"}", "}">>

Matches(text, p, pattern) ==
    /\ p + Len(pattern) - 1 <= Len(text)
    /\ SubSeq(text, p, p + Len(pattern) - 1) = pattern

\* The replacement string of String.prototype.replace, from position q on,
\* for the match of n characters at position p of text: $$ is a dollar
\* sign, $& the match, $` the text before it, $' the text after it; a
\* pattern without groups has no $1.
RECURSIVE Expand(_, _, _, _, _)
Expand(replacement, q, text, p, n) ==
    IF q > Len(replacement) THEN <<>>
    ELSE IF replacement[q] = "$" /\ q < Len(replacement) /\ replacement[q + 1] = "$"
    THEN <<"$">> \o Expand(replacement, q + 2, text, p, n)
    ELSE IF replacement[q] = "$" /\ q < Len(replacement) /\ replacement[q + 1] = "&"
    THEN SubSeq(text, p, p + n - 1) \o Expand(replacement, q + 2, text, p, n)
    ELSE IF replacement[q] = "$" /\ q < Len(replacement) /\ replacement[q + 1] = "`"
    THEN SubSeq(text, 1, p - 1) \o Expand(replacement, q + 2, text, p, n)
    ELSE IF replacement[q] = "$" /\ q < Len(replacement) /\ replacement[q + 1] = "'"
    THEN SubSeq(text, p + n, Len(text)) \o Expand(replacement, q + 2, text, p, n)
    ELSE <<replacement[q]>> \o Expand(replacement, q + 1, text, p, n)

\* text.replace(pattern, replacement) with the g flag, from position p on:
\* every match, left to right, without overlap.
RECURSIVE ReplaceAll(_, _, _, _)
ReplaceAll(text, p, pattern, replacement) ==
    IF p > Len(text) THEN <<>>
    ELSE IF Matches(text, p, pattern)
    THEN Expand(replacement, 1, text, p, Len(pattern))
            \o ReplaceAll(text, p + Len(pattern), pattern, replacement)
    ELSE <<text[p]>> \o ReplaceAll(text, p + 1, pattern, replacement)

\* for (const [key, value] of this.variables) result = result.replace(...)
RECURSIVE ReplaceEach(_, _)
ReplaceEach(entries, result) ==
    IF entries = <<>> THEN Returned(result)
    ELSE IF InvalidPattern(Head(entries).key)
    THEN Threw("Invalid regular expression")
    ELSE ReplaceEach(Tail(entries),
                     ReplaceAll(result, 1, Marker(Head(entries).key),
                                StringOf(Head(entries).value)))

\* replaceVariables: if (!text) return text; ...
ReplaceVariables(env, text) ==
    IF text = <<>> THEN Returned(text) ELSE ReplaceEach(env, text)

\* !obj
Falsy(obj) ==
    \/ obj.t \in {"undefined", "null"}
    \/ obj.t = "string" /\ obj.s = <<>>
    \/ obj.t = "number" /\ obj.n = 0
    \/ obj.t = "boolean" /\ ~obj.b

\* A faulty variant of ReplaceLeaf: every leaf is turned into a string.
ReplaceLeafCoerced(env, obj) ==
    LET r == ReplaceVariables(env, StringOf(obj))
    IN  IF r.threw THEN r ELSE Returned(Str(r.value))

\* replaceVariablesInObject on a value that is neither array nor object:
\* a falsy value and a non-string are returned as they are.
ReplaceLeaf(env, obj) ==
    IF Falsy(obj) THEN Returned(obj)
    ELSE IF obj.t = "string"
    THEN LET r == ReplaceVariables(env, obj.s)
         IN  IF r.threw THEN r ELSE Returned(Str(r.value))
    ELSE Returned(obj)

\* replaceVariablesInObject: obj.map(...) on an array, a new object with the
\* same keys on an object; the first throw ends the call.
RECURSIVE ReplaceVariablesInObject(_, _)
ReplaceVariablesInObject(env, obj) ==
    IF obj.t = "array"
    THEN LET items == [k \in DOMAIN obj.a |-> ReplaceVariablesInObject(env, obj.a[k])]
         IN  IF \E k \in DOMAIN items : items[k].threw
             THEN items[CHOOSE k \in DOMAIN items :
                            items[k].threw /\ \A j \in 1..(k - 1) : ~items[j].threw]
             ELSE Returned(Arr([k \in DOMAIN items |-> items[k].value]))
    ELSE IF obj.t = "object"
    THEN LET props == [key \in DOMAIN obj.f |-> ReplaceVariablesInObject(env, obj.f[key])]
         IN  IF \E key \in DOMAIN props : props[key].threw
             THEN Threw("Invalid regular expression")
             ELSE Returned(Obj([key \in DOMAIN props |-> props[key].value]))
    ELSE ReplaceLeaf(env, obj)

(***************************************************************************)
(* makeRequest and extractVariables                                        *)
(***************************************************************************)
\* What the transport answers to a request: an HTTP response (a status
\* code, a parsed body and the response headers; validateStatus accepts every
\* status), or no response at all. A body may lack the path an extraction rule
\* names.
Responses ==
    {[kind |-> "response", status |-> 200,
      body |-> Obj(IdPath :> Str(<<"u", "-", "1">>)), headers |-> Obj(<<>>)],
     [kind |-> "response", status |-> 200,
      body |-> Obj(IdPath :> Str(<<"u", "-", "2">>)), headers |-> Obj(<<>>)],
     [kind |-> "response", status |-> 200,
      body |-> Obj(MsgPath :> Str(<<"e", "m", "p", "t", "y">>)), headers |-> Obj(<<>>)],
     [kind |-> "response", status |-> 500,
      body |-> Obj(MsgPath :> Str(<<"d", "o", "w", "n">>)), headers |-> Obj(<<>>)]}

\* axios rejects: the timeout ran out or the connection failed.
TransportErrors == {[kind |-> "error", message |-> "timeout exceeded"]}

\* The answers the requests of a run get: a request fails when the transport
\* has no response for it.
Answers == {r \in Responses : r.status = 200} \cup TransportErrors

\* success: response.status >= 200 && response.status < 300
IsSuccess(status) == status >= 200 /\ status < 300

ContentType == <<"C", "o", "n", "t", "e", "n", "t", "-", "T", "y", "p", "e">>

ApplicationJson == Str(<<"a", "p", "p", "l", "i", "c", "a", "t", "i", "o", "n", "/",
                         "j", "s", "o", "n">>)

\* { 'Content-Type': 'application/json', ...headers }
WithContentType(headers) ==
    Obj([key \in DOMAIN headers.f \cup {ContentType} |->
            IF key \in DOMAIN headers.f THEN headers.f[key] ELSE ApplicationJson])

\* A faulty variant of ResolveRequest: the url is sent as it is configured.
ResolveRequestUnsubstituted(endpoint, env) ==
    Returned([url |-> endpoint.url,
              headers |-> WithContentType(Obj(<<>>)),
              data |-> endpoint.body])

\* The try block of makeRequest up to the call of axios: the url, headers
\* and body of the request after substitution, or the first throw.
ResolveRequest(endpoint, env) ==
    LET url == ReplaceVariables(env, endpoint.url)
        headers == ReplaceVariablesInObject(
                       env, IF Falsy(endpoint.headers) THEN Obj(<<>>) ELSE endpoint.headers)
        body == IF ~Falsy(endpoint.body) /\ endpoint.body.t \in {"object", "array"}
                THEN ReplaceVariablesInObject(env, endpoint.body)
                ELSE IF endpoint.body.t = "string"
                THEN LET r == ReplaceVariables(env, endpoint.body.s)
                     IN  IF r.threw THEN r ELSE Returned(Str(r.value))
                ELSE Returned(endpoint.body)
    IN  IF url.threw THEN url
        ELSE IF headers.threw THEN headers
        ELSE IF body.threw THEN body
        ELSE Returned([url |-> url.value,
                       headers |-> WithContentType(headers.value),
                       data |-> body.value])

\* The catch block of makeRequest: the error has no response.
FailedResult(message, responseTime) ==
    [success |-> FALSE,
     responseTime |-> responseTime,
     statusCode |-> Undefined,
     data |-> Undefined,
     headers |-> Undefined,
     error |-> message]

\* A faulty variant of CaughtResult: the error leaves makeRequest.
CaughtResultRethrown(message, responseTime) == Threw(message)

\* catch (error) { return {success: false, responseTime, error: ...} }
CaughtResult(message, responseTime) == Returned(FailedResult(message, responseTime))

\* makeRequest from the call of axios on, for the request its try block
\* resolved (or the error it threw): the RequestResult for the transport's
\* answer, which came responseTime milliseconds after makeRequest was called
\* (the size fields are left out).
AnswerRequest(request, answer, responseTime) ==
    IF request.threw THEN CaughtResult(request.message, responseTime)
    ELSE IF answer.kind = "error" THEN CaughtResult(answer.message, responseTime)
    ELSE Returned([success |-> IsSuccess(answer.status),
                   responseTime |-> responseTime,
                   statusCode |-> Num(answer.status),
                   data |-> answer.body,
                   headers |-> answer.headers,
                   error |-> Undefined])

\* makeRequest as a whole, called while the Variable Environment is env.
MakeRequest(endpoint, env, answer, responseTime) ==
    AnswerRequest(ResolveRequest(endpoint, env), answer, responseTime)

\* The outcome as the model records it: the RequestResult without its timing.
Recorded(result) ==
    [success |-> result.success,
     statusCode |-> result.statusCode,
     data |-> result.data,
     headers |-> result.headers,
     error |-> result.error]

\* headers[extraction.path]; on a value that is no object the access throws,
\* extractVariables catches it and the rule binds nothing.
HeaderValue(headers, path) ==
    IF headers.t = "object" /\ path \in DOMAIN headers.f
    THEN headers.f[path]
    ELSE Undefined

\* A faulty variant of ExtractedValue: a value that is not found is null.
ExtractedValueOrNull(extraction, responseData, headers) ==
    LET value == IF extraction.from = "response"
                 THEN GetValueByPath(responseData, extraction.path)
                 ELSE HeaderValue(headers, extraction.path)
    IN  IF value = Undefined THEN Null ELSE value

\* The value one extraction rule finds.
ExtractedValue(extraction, responseData, headers) ==
    IF extraction.from = "response" THEN GetValueByPath(responseData, extraction.path)
    ELSE IF extraction.from = "headers" THEN HeaderValue(headers, extraction.path)
    ELSE Undefined

\* extractVariables: for each rule in turn, bind the value found, skip the
\* rule when the value is undefined.
RECURSIVE ExtractVariables(_, _, _, _)
ExtractVariables(env, rules, responseData, headers) ==
    IF rules = <<>> THEN env
    ELSE LET extraction == Head(rules)
             value == ExtractedValue(extraction, responseData, headers)
         IN  ExtractVariables(
                 IF value # Undefined
                 THEN SetVariable(env, extraction.name, value)
                 ELSE env,
                 Tail(rules), responseData, headers)

\* A faulty variant of PushResult: the outcome is lost.
PushResultLost(res, result) == res

\* results.push(result)
PushResult(res, result) == Append(res, result)

\* A faulty variant of ShouldExtract: extraction also on failed responses.
ShouldExtractAlways(endpoint, result) == Len(endpoint.variables) > 0

\* if (result.success && endpoint.variables?.length)
ShouldExtract(endpoint, result) ==
    result.success /\ Len(endpoint.variables) > 0

(***************************************************************************)
(* sanitizeForLogging, of class Glockit and of class BarbariansBench.      *)
(***************************************************************************)
UpperCase == <<"A", "B", "C", "D", "E", "F", "G", "H", "I", "J", "K", "L", "M",
               "N", "O", "P", "Q", "R", "S", "T", "U", "V", "W", "X", "Y", "Z">>

LowerCase == <<"a", "b", "c", "d", "e", "f", "g", "h", "i", "j", "k", "l", "m",
               "n", "o", "p", "q", "r", "s", "t", "u", "v", "w", "x", "y", "z">>

\* The character without its case, as the i flag of a pattern reads it.
Folded(c) ==
    IF \E k \in DOMAIN UpperCase : UpperCase[k] = c
    THEN LowerCase[CHOOSE k \in DOMAIN UpperCase : UpperCase[k] = c]
    ELSE c

\* const sensitivePatterns = [/token/i, /auth/i, ...]
SensitivePatterns ==
    {<<"t", "o", "k", "e", "n">>,
     <<"a", "u", "t", "h">>,
     <<"k", "e", "y">>,
     <<"s", "e", "c", "r", "e", "t">>,
     <<"p", "a", "s", "s", "w", "o", "r", "d">>,
     <<"c", "r", "e", "d", "e", "n", "t", "i", "a", "l">>,
     <<"b", "e", "a", "r", "e", "r">>,
     <<"j", "w", "t">>,
     <<"s", "e", "s", "s", "i", "o", "n">>}

\* pattern.test(variableName) for a pattern of letters with the i flag
PatternTest(pattern, variableName) ==
    \E p \in 1..(Len(variableName) - Len(pattern) + 1) :
        \A k \in DOMAIN pattern : Folded(variableName[p + k - 1]) = pattern[k]

\* sensitivePatterns.some(pattern => pattern.test(variableName))
IsSensitive(variableName) ==
    \E pattern \in SensitivePatterns : PatternTest(pattern, variableName)

NonStringValue ==
    <<"[", "n", "o", "n", "-", "s", "t", "r", "i", "n", "g", " ", "v", "a", "l", "u", "e", "]">>

Dots == <<".", ".", ".">>

\* The longest value Glockit logs in full, and BarbariansBench.
MaxLogLength == 100

\* Glockit.sanitizeForLogging
SanitizeForLogging(value, variableName) ==
    IF value.t # "string" THEN NonStringValue
    ELSE IF IsSensitive(variableName)
    THEN <<"*", "*", "*", "*", "*", "*", "*", "*">>
    ELSE IF Len(value.s) > MaxLogLength
    THEN SubSeq(value.s, 1, MaxLogLength) \o Dots
            \o <<" ", "[", "t", "r", "u", "n", "c", "a", "t", "e", "d", " ">>
            \o DecimalOf(Len(value.s) - MaxLogLength)
            \o <<" ", "c", "h", "a", "r", "s", "]">>
    ELSE value.s

\* BarbariansBench.sanitizeForLogging
LegacySanitizeForLogging(value, variableName) ==
    IF value.t # "string" THEN NonStringValue
    ELSE IF IsSensitive(variableName)
    THEN IF Len(value.s) > 8
         THEN SubSeq(value.s, 1, 4) \o Dots \o SubSeq(value.s, Len(value.s) - 3, Len(value.s))
         ELSE <<"[", "h", "i", "d", "d", "e", "n", "]">>
    ELSE IF Len(value.s) > MaxLogLength
    THEN SubSeq(value.s, 1, 97) \o Dots
    ELSE value.s

(***************************************************************************)
(* benchmarkEndpoint: the workers.  One invocation of benchmarkEndpoint    *)
(* per position e of processedEndpoints; its locals are indexed by e.      *)
(***************************************************************************)
EpIds == 1..MaxOf({Len(eps) : eps \in RunEndpointLists \cup BenchEndpointLists})

WorkerIds == 1..Max(MaxConcurrent, MaxRequests)

InFlight(e) == {w \in WorkerIds : wpc[e][w] = "inflight"}

\* Workers of invocation e whose executeRequest() has not returned.
Active(e) == {w \in WorkerIds : wpc[e][w] \in {"delay", "inflight", "throttle"}}

\* startGap before the second dispatch of an endpoint.
NoGap == 0 - 1

\* The requestDelay the worker loop applies: this.requestDelay.
DelayNeeded(now, last) ==
    IF requestDelay > 0 /\ now - last < requestDelay
    THEN requestDelay - (now - last)
    ELSE 0

\* No request of the worker is under way.
NoRequest == [threw |-> FALSE, value |-> Undefined]

\* lastRequestTime = Date.now(); const result = await this.makeRequest(...):
\* makeRequest substitutes the url, headers and body while the Variable
\* Environment is env, the request is sent and the worker waits for the
\* response.
Dispatch(e, w, env) ==
    /\ lastRequestTime' = [lastRequestTime EXCEPT ![e] = clock]
    /\ wpc' = [wpc EXCEPT ![e][w] = "inflight"]
    /\ wtime' = [wtime EXCEPT ![e][w] = clock]
    /\ sent' = [sent EXCEPT ![e][w] = ResolveRequest(processedEndpoints[e], env)]
    /\ started' = [started EXCEPT ![e] = @ + 1]
    /\ startGap' = [startGap EXCEPT ![e] =
                        IF started[e] = 0 THEN NoGap
                        ELSE IF @ = NoGap THEN clock - lastRequestTime[e]
                        ELSE Min(@, clock - lastRequestTime[e])]

\* The head of the worker loop, with res the outcomes recorded so far and
\* env the Variable Environment:
\* while (shouldContinue()) { delay if needed; send the request ...
LoopHead(e, w, res, env) ==
    IF ~ShouldContinue(processedEndpoints[e], global, res, startTime[e], clock)
    THEN /\ wpc' = [wpc EXCEPT ![e][w] = "done"]
         /\ sent' = [sent EXCEPT ![e][w] = NoRequest]
         /\ UNCHANGED <<wtime, lastRequestTime, started, startGap>>
    ELSE IF DelayNeeded(clock, lastRequestTime[e]) > 0
    THEN /\ wpc' = [wpc EXCEPT ![e][w] = "delay"]
         /\ wtime' = [wtime EXCEPT ![e][w] = clock + DelayNeeded(clock, lastRequestTime[e])]
         /\ sent' = [sent EXCEPT ![e][w] = NoRequest]
         /\ UNCHANGED <<lastRequestTime, started, startGap>>
    ELSE Dispatch(e, w, env)

\* run's loop calls benchmarkEndpoint for the next endpoint: the locals are
\* initialised, then benchmarkEndpoint yields once (setImmediate).
BenchStart ==
    /\ runpc = "loop"
    /\ epIdx <= Len(processedEndpoints)
    /\ startTime' = [startTime EXCEPT ![epIdx] = clock]
    /\ results' = [results EXCEPT ![epIdx] = <<>>]
    /\ lastRequestTime' = [lastRequestTime EXCEPT ![epIdx] = 0]
    /\ spawned' = [spawned EXCEPT ![epIdx] = 0]
    /\ runpc' = "spawn"
    /\ errors' = [errors EXCEPT ![epIdx] = <<>>]
    /\ UNCHANGED <<wpc, wtime, sent, started, startGap, extractions>>
    /\ UNCHANGED <<resolverVars, configVars, callVars, variables, clock, epIdx, runResults, summary>>

\* for (let i = 0; i < effectiveConcurrent; i++) requestPromises.push(executeRequest());
\* each call runs the worker up to its first await. After the last call
\* benchmarkEndpoint awaits Promise.all.
SpawnWorker ==
    /\ runpc = "spawn"
    /\ spawned[epIdx] < EffectiveConcurrent(processedEndpoints[epIdx], global)
    /\ LoopHead(epIdx, spawned[epIdx] + 1, results[epIdx], variables)
    /\ spawned' = [spawned EXCEPT ![epIdx] = @ + 1]
    /\ runpc' = IF spawned[epIdx] + 1 = EffectiveConcurrent(processedEndpoints[epIdx], global)
                THEN "await" ELSE "spawn"
    /\ UNCHANGED <<startTime, results, extractions, errors>>
    /\ UNCHANGED <<resolverVars, configVars, callVars, variables, clock, epIdx, runResults, summary>>

\* The sleep of the request delay is over: lastRequestTime = Date.now() and
\* the request is sent.
WakeDelay(e, w) ==
    /\ wpc[e][w] = "delay"
    /\ clock >= wtime[e][w]
    /\ Dispatch(e, w, variables)
    /\ UNCHANGED <<startTime, results, spawned, extractions, errors>>
    /\ UNCHANGED <<resolverVars, configVars, callVars, runVars>>

\* if (throttle > 0) await this.sleep(throttle); then round the loop, with
\* res the outcomes recorded so far and env the Variable Environment.
AfterOutcome(e, w, res, env) ==
    IF ThrottleOf(processedEndpoints[e], global) > 0
    THEN /\ wpc' = [wpc EXCEPT ![e][w] = "throttle"]
         /\ wtime' = [wtime EXCEPT ![e][w] = clock + ThrottleOf(processedEndpoints[e], global)]
         /\ sent' = [sent EXCEPT ![e][w] = NoRequest]
         /\ UNCHANGED <<lastRequestTime, started, startGap>>
    ELSE LoopHead(e, w, res, env)

\* The transport's answer to worker w's request arrives, at least one
\* millisecond after the request was sent: makeRequest returns, variables are
\* extracted, the outcome is pushed, and the worker sleeps for the throttle or
\* goes round its loop with the Variable Environment the extraction left.
\* (The variables of a run have plain names, so that no substitution of a
\* run throws and every request is sent.)
Respond(e, w, answer) ==
    /\ wpc[e][w] = "inflight"
    /\ clock > wtime[e][w]
    /\ LET endpoint == processedEndpoints[e]
           made == AnswerRequest(sent[e][w], answer, clock - wtime[e][w])
       IN  IF made.threw
           THEN \* catch (error) of executeRequest: errors.push(errorMsg) and a
                \* synthetic failure is pushed
                LET res == PushResult(results[e], Recorded(FailedResult(made.message, 0)))
                IN  /\ errors' = [errors EXCEPT ![e] = Append(@, made.message)]
                    /\ results' = [results EXCEPT ![e] = res]
                    /\ UNCHANGED <<variables, extractions>>
                    /\ AfterOutcome(e, w, res, variables)
           ELSE LET result == made.value
                    res == PushResult(results[e], Recorded(result))
                    env == IF ShouldExtract(endpoint, result)
                           THEN ExtractVariables(variables, endpoint.variables,
                                                 result.data, result.headers)
                           ELSE variables
                IN  /\ variables' = env
                    /\ extractions' = [extractions EXCEPT ![e] =
                                           IF ShouldExtract(endpoint, result) THEN @ + 1 ELSE @]
                    /\ results' = [results EXCEPT ![e] = res]
                    /\ UNCHANGED errors
                    /\ AfterOutcome(e, w, res, env)
    /\ UNCHANGED <<startTime, spawned>>
    /\ UNCHANGED <<resolverVars, configVars, callVars, clock, runpc, epIdx, runResults, summary>>

\* The throttle sleep is over: the worker goes round its loop.
WakeThrottle(e, w) ==
    /\ wpc[e][w] = "throttle"
    /\ clock >= wtime[e][w]
    /\ LoopHead(e, w, results[e], variables)
    /\ UNCHANGED <<startTime, results, spawned, extractions, errors>>
    /\ UNCHANGED <<resolverVars, configVars, callVars, runVars>>

\* A number that is the quotient of two integers, and the number 0.
Ratio(num, den) == [num |-> num, den |-> den]

Zero == Ratio(0, 1)

\* [...new Set(errs)]: each message once, in the order of first occurrence.
RECURSIVE Unique(_)
Unique(errs) ==
    IF errs = <<>> THEN <<>>
    ELSE LET front == Unique(SubSeq(errs, 1, Len(errs) - 1))
             last == errs[Len(errs)]
         IN  IF \E k \in DOMAIN front : front[k] = last THEN front
             ELSE Append(front, last)

\* A faulty variant of SuccessRate: the division is made without the test.
SuccessRateUnguarded(totalRequests, successfulRequests) ==
    Ratio(successfulRequests, totalRequests)

\* const successRate = totalRequests > 0 ? successfulRequests / totalRequests : 0;
SuccessRate(totalRequests, successfulRequests) ==
    IF totalRequests > 0 THEN Ratio(successfulRequests, totalRequests) ELSE Zero

\* The statistics benchmarkEndpoint returns (the response times and the
\* sizes, which the recorded outcomes do not keep, are left out).
EndpointResultOf(endpoint, res, errs) ==
    LET successfulResults == {k \in DOMAIN res : res[k].success}
        totalRequests == Len(res)
        successfulRequests == Cardinality(successfulResults)
    IN  [name |-> endpoint.name,
         totalRequests |-> totalRequests,
         successfulRequests |-> successfulRequests,
         failedRequests |-> totalRequests - successfulRequests,
         successRate |-> SuccessRate(totalRequests, successfulRequests),
         errors |-> Unique(errs)]

\* A faulty variant of PositiveResponseTimes: no response time is left out.
RECURSIVE AllResponseTimes(_)
AllResponseTimes(res) ==
    IF res = <<>> THEN <<>>
    ELSE <<Head(res).responseTime>> \o AllResponseTimes(Tail(res))

\* results.map(r => r.responseTime).filter(rt => rt > 0)
RECURSIVE PositiveResponseTimes(_)
PositiveResponseTimes(res) ==
    IF res = <<>> THEN <<>>
    ELSE IF Head(res).responseTime > 0
    THEN <<Head(res).responseTime>> \o PositiveResponseTimes(Tail(res))
    ELSE PositiveResponseTimes(Tail(res))

\* responseTimes.reduce((sum, rt) => sum + rt, 0)
RECURSIVE SumOf(_)
SumOf(responseTimes) ==
    IF responseTimes = <<>> THEN 0 ELSE Head(responseTimes) + SumOf(Tail(responseTimes))

\* Math.min(...responseTimes), Math.max(...responseTimes) of a list that is
\* not empty.
MathMin(responseTimes) ==
    CHOOSE x \in {responseTimes[k] : k \in DOMAIN responseTimes} :
        \A k \in DOMAIN responseTimes : x <= responseTimes[k]

MathMax(responseTimes) ==
    CHOOSE x \in {responseTimes[k] : k \in DOMAIN responseTimes} :
        \A k \in DOMAIN responseTimes : x >= responseTimes[k]

\* The response time statistics benchmarkEndpoint returns, for outcomes that
\* keep their response time.
ResponseTimeStats(res) ==
    LET responseTimes == PositiveResponseTimes(res)
        totalResponseTime == SumOf(responseTimes)
    IN  [averageResponseTime |->
             IF Len(responseTimes) > 0
             THEN Ratio(totalResponseTime, Len(responseTimes))
             ELSE Zero,
         minResponseTime |-> IF Len(responseTimes) > 0 THEN MathMin(responseTimes) ELSE 0,
         maxResponseTime |-> IF Len(responseTimes) > 0 THEN MathMax(responseTimes) ELSE 0]

\* A faulty variant of PushEndpointResult: an endpoint without a successful
\* request is left out.
PushEndpointResultIfSuccessful(res, endpointResult) ==
    IF endpointResult.successfulRequests > 0 THEN Append(res, endpointResult) ELSE res

\* run: results.push(endpointResult)
PushEndpointResult(res, endpointResult) == Append(res, endpointResult)

\* A faulty variant of AllWorkersDone: run does not wait for the workers.
AllWorkersDoneNoWait(e) == TRUE

\* A faulty variant of AllWorkersDone: run waits for as many workers as
\* global.concurrent asks for, also when fewer were started.
AllWorkersDoneConfigured(e) ==
    Active(e) = {} /\ spawned[e] = ConfiguredConcurrent(global)

\* await Promise.all(requestPromises): every executeRequest() has returned.
AllWorkersDone(e) == Active(e) = {}

\* Promise.all has resolved: benchmarkEndpoint computes the statistics and
\* returns (its locals go out of scope); run pushes the result and moves to
\* the next endpoint.
BenchFinish ==
    /\ runpc = "await"
    /\ AllWorkersDone(epIdx)
    /\ runResults' = PushEndpointResult(
                         runResults,
                         EndpointResultOf(processedEndpoints[epIdx], results[epIdx],
                                          errors[epIdx]))
    /\ epIdx' = epIdx + 1
    /\ runpc' = "loop"
    /\ startTime' = [startTime EXCEPT ![epIdx] = 0]
    /\ results' = [results EXCEPT ![epIdx] = <<>>]
    /\ lastRequestTime' = [lastRequestTime EXCEPT ![epIdx] = 0]
    /\ spawned' = [spawned EXCEPT ![epIdx] = 0]
    /\ started' = [started EXCEPT ![epIdx] = 0]
    /\ startGap' = [startGap EXCEPT ![epIdx] = NoGap]
    /\ extractions' = [extractions EXCEPT ![epIdx] = 0]
    /\ errors' = [errors EXCEPT ![epIdx] = <<>>]
    /\ UNCHANGED <<wpc, wtime, sent>>
    /\ UNCHANGED <<resolverVars, configVars, callVars, variables, clock, summary>>

\* A faulty variant of SumField: only the first endpoint is counted.
SumFieldOfFirst(s, f) == IF s = <<>> THEN 0 ELSE s[1][f]

\* results.reduce((sum, r) => sum + r[f], 0)
RECURSIVE SumField(_, _)
SumField(s, f) == IF s = <<>> THEN 0 ELSE s[1][f] + SumField(Tail(s), f)

\* The endpoint loop is over: run computes the summary and returns.
RunFinish ==
    /\ runpc = "loop"
    /\ epIdx > Len(processedEndpoints)
    /\ summary' = [totalRequests |-> SumField(runResults, "totalRequests"),
                   totalSuccessful |-> SumField(runResults, "successfulRequests"),
                   totalFailed |-> SumField(runResults, "failedRequests")]
    /\ runpc' = "done"
    /\ UNCHANGED <<resolverVars, configVars, callVars, variables, clock, epIdx, runResults, benchVars>>

\* The last millisecond of the model's clock: MaxTime after the call of run,
\* and one millisecond more for each endpoint after the first.
Horizon ==
    (IF call.op = "run" THEN call.at ELSE Epoch) + MaxTime + (Len(endpoints) - 1)

\* Time passes while run is suspended in an await. The transport answers
\* every request within the timeout.
Tick ==
    /\ \/ runpc = "await"
       \/ runpc = "spawn" /\ spawned[epIdx] = 0
    /\ clock < Horizon
    /\ \A e \in EpIds : \A w \in InFlight(e) : clock - wtime[e][w] < TimeoutOf(global)
    /\ clock' = clock + 1
    /\ UNCHANGED <<resolverVars, configVars, callVars, variables, runpc, epIdx, runResults, summary,
                   benchVars>>

(***************************************************************************)
(* Initial states.                                                         *)
(***************************************************************************)
ResolverInit ==
    /\ rpc = "start"
    /\ resolved = <<>>
    /\ remaining = <<>>
    /\ before = 0
    /\ i = 0
    /\ warned = FALSE
    /\ passes = 0
    /\ processedEndpoints = <<>>

\* No method has been called on its own.
NoCall == [op |-> "none"]

\* The state of a Glockit engine whose run has been called and is at
\* position pc.
EngineAt(pc) ==
    /\ variables = <<>>
    /\ clock = Epoch
    /\ runpc = pc
    /\ epIdx = 0
    /\ runResults = <<>>
    /\ summary = [totalRequests |-> 0, totalSuccessful |-> 0, totalFailed |-> 0]
    /\ startTime = [e \in EpIds |-> 0]
    /\ results = [e \in EpIds |-> <<>>]
    /\ lastRequestTime = [e \in EpIds |-> 0]
    /\ spawned = [e \in EpIds |-> 0]
    /\ wpc = [e \in EpIds |-> [w \in WorkerIds |-> "none"]]
    /\ wtime = [e \in EpIds |-> [w \in WorkerIds |-> 0]]
    /\ sent = [e \in EpIds |-> [w \in WorkerIds |-> NoRequest]]
    /\ started = [e \in EpIds |-> 0]
    /\ startGap = [e \in EpIds |-> NoGap]
    /\ extractions = [e \in EpIds |-> 0]
    /\ errors = [e \in EpIds |-> <<>>]
    /\ call = NoCall

\* The state of a Glockit engine whose run has been called with a valid
\* configuration but has not yet started an endpoint.
EngineInit == EngineAt("resolve")

ResolveNext ==
    \/ ResolveStart
    \/ WhileCheck
    \/ ForStep
    \/ PassEnd
    \/ ResolveReturn

(***************************************************************************)
(* SpecResolve: resolveDependencies applied to every valid endpoint list   *)
(* of at most MaxEndpoints endpoints.                                      *)
(***************************************************************************)
InitResolve ==
    /\ endpoints \in ValidEndpointLists(MaxEndpoints)
    /\ ResolverInit
    /\ global = [maxRequests |-> 1, concurrent |-> 1, duration |-> 0, throttle |-> 0,
                 timeout |-> 0]
    /\ requestDelay = 0
    /\ EngineInit

SpecResolve == InitResolve /\ [][ResolveNext]_vars

(***************************************************************************)
(* SpecChains: resolveDependencies applied to every list of MaxChained     *)
(* endpoints of which each has at most one dependency: chains, cycles, and *)
(* chains beside a cycle or leading into one.                              *)
(***************************************************************************)
MaxChained == 4

ChainedEndpointLists ==
    {eps \in [1..MaxChained ->
                 [name : NamesOf(MaxChained),
                  dependencies : {{}} \cup {{name} : name \in NamesOf(MaxChained)}]] :
        \A k \in 1..MaxChained :
            /\ eps[k].name = AllNames[k]
            /\ eps[k].name \notin eps[k].dependencies}

InitChains ==
    /\ endpoints \in ChainedEndpointLists
    /\ ResolverInit
    /\ global = [maxRequests |-> 1, concurrent |-> 1, duration |-> 0, throttle |-> 0,
                 timeout |-> 0]
    /\ requestDelay = 0
    /\ EngineInit

SpecChains == InitChains /\ [][ResolveNext]_vars

(***************************************************************************)
(* SpecBench: one call of run on a configuration of one endpoint, under    *)
(* every policy within the bounds.                                         *)
(***************************************************************************)
InitBench ==
    /\ endpoints \in BenchEndpointLists
    /\ ResolverInit
    /\ global \in [maxRequests : 1..MaxRequests, concurrent : 0..MaxConcurrent,
                    duration : Durations, throttle : Throttles, timeout : Timeouts]
    /\ requestDelay \in Delays
    /\ EngineInit

(***************************************************************************)
(* Spec: one call of run on a configuration of two endpoints, the second   *)
(* depending on the first.                                                 *)
(***************************************************************************)
Init ==
    /\ endpoints \in RunEndpointLists
    /\ ResolverInit
    /\ \E p \in RunPolicies :
          /\ global = p.global
          /\ requestDelay = p.delay
    /\ EngineInit

Next ==
    \/ ResolveNext
    \/ BenchStart
    \/ SpawnWorker
    \/ \E e \in EpIds, w \in WorkerIds : WakeDelay(e, w)
    \/ \E e \in EpIds, w \in WorkerIds, answer \in Answers : Respond(e, w, answer)
    \/ \E e \in EpIds, w \in WorkerIds : WakeThrottle(e, w)
    \/ BenchFinish
    \/ RunFinish
    \/ Tick

Spec == Init /\ [][Next]_vars

SpecBench == InitBench /\ [][Next]_vars

(***************************************************************************)
(* SpecAnswers: the run of Spec with a transport that also answers with    *)
(* HTTP errors, whose bodies may hold what an extraction rule looks for.   *)
(***************************************************************************)
\* Responses with an error status and the path id in their body.
ErrorResponses ==
    {[kind |-> "response", status |-> 500,
      body |-> Obj(IdPath :> Str(<<"u", "-", "0">>)), headers |-> Obj(<<>>)]}

AnswersNext ==
    \/ ResolveNext
    \/ BenchStart
    \/ SpawnWorker
    \/ \E e \in EpIds, w \in WorkerIds : WakeDelay(e, w)
    \/ \E e \in EpIds, w \in WorkerIds,
          answer \in Responses \cup ErrorResponses \cup TransportErrors :
            Respond(e, w, answer)
    \/ \E e \in EpIds, w \in WorkerIds : WakeThrottle(e, w)
    \/ BenchFinish
    \/ RunFinish
    \/ Tick

SpecAnswers == Init /\ [][AnswersNext]_vars

(***************************************************************************)
(* SpecLive: one call of run in count mode, on one endpoint and on two     *)
(* endpoints that depend on each other, with the scheduling of Node.js:    *)
(* a task that is ready is run, a timer that is due fires, time passes     *)
(* while something waits for it, and the transport answers every request   *)
(* (with a response or an error) within the timeout.                       *)
(***************************************************************************)
\* Two endpoints that depend on each other: validate accepts them.
CyclicEndpointLists == {<<RunEndpoint("A", {"B"}), RunEndpoint("B", {"A"})>>}

\* The answers of the transport: one response, or no response at all.
LiveAnswers ==
    {r \in Responses : r.body = Obj(IdPath :> Str(<<"u", "-", "1">>))} \cup TransportErrors

\* A worker waits for a timer that is not yet due, or for its response.
Pending ==
    \E e \in EpIds, w \in WorkerIds :
        \/ wpc[e][w] \in {"delay", "throttle"} /\ wtime[e][w] > clock
        \/ wpc[e][w] = "inflight"

\* Time passes while run is suspended in Promise.all and a worker waits for
\* it; the transport answers every request within the timeout.
LiveTick ==
    /\ runpc = "await"
    /\ Pending
    /\ \A e \in EpIds : \A w \in InFlight(e) : clock - wtime[e][w] < TimeoutOf(global)
    /\ clock' = clock + 1
    /\ UNCHANGED <<resolverVars, configVars, callVars, variables, runpc, epIdx, runResults,
                   summary, benchVars>>

\* One endpoint under the policies of the count mode within the bounds (a
\* delay together with a throttle for fewer than MaxConcurrent workers), the
\* two endpoints under the policy of RunPolicies that is in count mode and
\* has no throttle.
InitLive ==
    /\ \/ /\ endpoints \in BenchEndpointLists
          /\ global \in [maxRequests : 1..MaxRequests, concurrent : 0..MaxConcurrent,
                          duration : {0}, throttle : Throttles, timeout : Timeouts]
          /\ requestDelay \in Delays
          /\ global.throttle = 0 \/ requestDelay = 0 \/ global.concurrent < MaxConcurrent
       \/ /\ endpoints \in CyclicEndpointLists
          /\ \E p \in RunPolicies :
                /\ ~UseDuration(p.global)
                /\ p.global.throttle = 0
                /\ global = p.global
                /\ requestDelay = p.delay
    /\ ResolverInit
    /\ EngineInit

LiveNext ==
    \/ ResolveNext
    \/ BenchStart
    \/ SpawnWorker
    \/ \E e \in EpIds, w \in WorkerIds : WakeDelay(e, w)
    \/ \E e \in EpIds, w \in WorkerIds, answer \in LiveAnswers : Respond(e, w, answer)
    \/ \E e \in EpIds, w \in WorkerIds : WakeThrottle(e, w)
    \/ BenchFinish
    \/ RunFinish
    \/ LiveTick

\* The event loop runs every task that is ready: the synchronous code of run
\* and resolveDependencies goes on, a timer that is due wakes its worker, a
\* request gets its answer, and time does not stand still.
Fairness ==
    /\ WF_vars(ResolveNext)
    /\ WF_vars(BenchStart)
    /\ WF_vars(SpawnWorker)
    /\ WF_vars(BenchFinish)
    /\ WF_vars(RunFinish)
    /\ WF_vars(LiveTick)
    /\ \A e \in EpIds, w \in WorkerIds :
          /\ WF_vars(WakeDelay(e, w))
          /\ WF_vars(WakeThrottle(e, w))
          /\ WF_vars(\E answer \in LiveAnswers : Respond(e, w, answer))

SpecLive == InitLive /\ [][LiveNext]_vars /\ Fairness

(***************************************************************************)
(* SpecBatch: one call of run of class BarbariansBench, the legacy engine, *)
(* on a configuration of one endpoint.  Its benchmarkEndpoint sends the    *)
(* requests in batches: slot w of wpc, wtime and sent is the w-th request  *)
(* of the current batch, spawned is the size of that batch and started is  *)
(* requestCounter.  run, resolveDependencies, the substitution and the     *)
(* extraction of the class are those of Glockit, statement for statement.  *)
(***************************************************************************)
LegacyDefaultTimeout == 5000

\* const timeout = globalConfig?.timeout || 5000;
LegacyTimeoutOf(g) == IF g.timeout # 0 THEN g.timeout ELSE LegacyDefaultTimeout

\* success: response.status >= 200 && response.status < 400
LegacyIsSuccess(status) == status >= 200 /\ status < 400

\* The try block of the legacy makeRequest up to the call of axios.
LegacyResolveRequest(endpoint, env) ==
    LET url == ReplaceVariables(env, endpoint.url)
        headers == ReplaceVariablesInObject(
                       env, IF Falsy(endpoint.headers) THEN Obj(<<>>) ELSE endpoint.headers)
        body == ReplaceVariablesInObject(env, endpoint.body)
    IN  IF url.threw THEN url
        ELSE IF headers.threw THEN headers
        ELSE IF body.threw THEN body
        ELSE Returned([url |-> url.value, headers |-> headers.value, data |-> body.value])

\* The legacy makeRequest from the call of axios on: it returns a
\* RequestResult for every answer and for every error.
LegacyAnswerRequest(request, answer, responseTime) ==
    IF request.threw THEN FailedResult(request.message, responseTime)
    ELSE IF answer.kind = "error" THEN FailedResult(answer.message, responseTime)
    ELSE [success |-> LegacyIsSuccess(answer.status),
          responseTime |-> responseTime,
          statusCode |-> Num(answer.status),
          data |-> answer.body,
          headers |-> answer.headers,
          error |-> Undefined]

\* if (result.success && endpoint.variables &&
\*     results.filter(r => r.success).length === 1), after results.push(result)
\* (extractVariables over an empty list of rules binds nothing, so an
\* endpoint without rules and one with an empty list behave alike).
LegacyShouldExtract(endpoint, result, res) ==
    /\ result.success
    /\ Len(endpoint.variables) > 0
    /\ Cardinality({k \in DOMAIN res : res[k].success}) = 1

\* A faulty variant of BatchSize: every batch has concurrent requests.
BatchSizeConcurrent(endpoint, g, res) == ConfiguredConcurrent(g)

\* const batchSize = Math.min(concurrent,
\*                             useDuration ? concurrent : maxRequests - results.length);
BatchSize(endpoint, g, res) ==
    Min(ConfiguredConcurrent(g),
        IF UseDuration(g) THEN ConfiguredConcurrent(g)
        ELSE MaxRequestsOf(endpoint, g) - Len(res))

\* run's loop calls benchmarkEndpoint for the next endpoint: the locals are
\* initialised and the while loop is reached.
BatchStart ==
    /\ runpc = "loop"
    /\ epIdx <= Len(processedEndpoints)
    /\ startTime' = [startTime EXCEPT ![epIdx] = clock]
    /\ results' = [results EXCEPT ![epIdx] = <<>>]
    /\ errors' = [errors EXCEPT ![epIdx] = <<>>]
    /\ started' = [started EXCEPT ![epIdx] = 0]
    /\ spawned' = [spawned EXCEPT ![epIdx] = 0]
    /\ runpc' = "while"
    /\ UNCHANGED <<lastRequestTime, wpc, wtime, sent, startGap, extractions>>
    /\ UNCHANGED <<resolverVars, configVars, callVars, variables, clock, epIdx, runResults, summary>>

\* while (shouldContinue()) { ... for (let i = 0; i < batchSize && shouldContinue(); i++):
\* every request of the batch is sent, one after the other without an
\* await in between, then the loop awaits Promise.all.
BatchLaunch ==
    /\ runpc = "while"
    /\ ShouldContinue(processedEndpoints[epIdx], global, results[epIdx], startTime[epIdx], clock)
    /\ LET endpoint == processedEndpoints[epIdx]
           batchSize == BatchSize(endpoint, global, results[epIdx])
       IN  /\ wpc' = [wpc EXCEPT ![epIdx] =
                         [w \in WorkerIds |-> IF w <= batchSize THEN "inflight" ELSE "none"]]
           /\ wtime' = [wtime EXCEPT ![epIdx] =
                           [w \in WorkerIds |-> IF w <= batchSize THEN clock ELSE 0]]
           /\ sent' = [sent EXCEPT ![epIdx] =
                          [w \in WorkerIds |->
                              IF w <= batchSize THEN LegacyResolveRequest(endpoint, variables)
                              ELSE NoRequest]]
           /\ spawned' = [spawned EXCEPT ![epIdx] = batchSize]
           /\ started' = [started EXCEPT ![epIdx] = @ + batchSize]
    /\ runpc' = "await"
    /\ UNCHANGED <<startTime, results, lastRequestTime, startGap, extractions, errors>>
    /\ UNCHANGED <<resolverVars, configVars, callVars, variables, clock, epIdx, runResults, summary>>

\* The transport's answer to request w of the batch arrives: makeRequest
\* returns, the outcome is pushed and the first successful outcome has its
\* variables extracted.
BatchRespond(e, w, answer) ==
    /\ runpc = "await"
    /\ e = epIdx
    /\ wpc[e][w] = "inflight"
    /\ clock > wtime[e][w]
    /\ LET endpoint == processedEndpoints[e]
           result == LegacyAnswerRequest(sent[e][w], answer, clock - wtime[e][w])
           res == PushResult(results[e], Recorded(result))
       IN  /\ results' = [results EXCEPT ![e] = res]
           /\ IF LegacyShouldExtract(endpoint, result, res)
              THEN /\ variables' = ExtractVariables(variables, endpoint.variables,
                                                   result.data, result.headers)
                   /\ extractions' = [extractions EXCEPT ![e] = @ + 1]
              ELSE UNCHANGED <<variables, extractions>>
    /\ wpc' = [wpc EXCEPT ![e][w] = "done"]
    /\ sent' = [sent EXCEPT ![e][w] = NoRequest]
    /\ UNCHANGED <<startTime, lastRequestTime, spawned, wtime, started, startGap, errors>>
    /\ UNCHANGED <<resolverVars, configVars, callVars, clock, runpc, epIdx, runResults, summary>>

\* if (useDuration && requestCounter > 10000) break; else round the loop.
AfterBatch(e) ==
    IF UseDuration(global) /\ started[e] > SafetyCap THEN "return" ELSE "while"

\* Promise.all has resolved: every request of the batch has its outcome.
\* if (throttle > 0 && shouldContinue()) await this.sleep(throttle): the
\* timer of the loop is kept in slot 1.
BatchEnd ==
    /\ runpc = "await"
    /\ InFlight(epIdx) = {}
    /\ LET endpoint == processedEndpoints[epIdx]
       IN  IF /\ ThrottleOf(endpoint, global) > 0
              /\ ShouldContinue(endpoint, global, results[epIdx], startTime[epIdx], clock)
           THEN /\ runpc' = "sleep"
                /\ wtime' = [wtime EXCEPT ![epIdx][1] = clock + ThrottleOf(endpoint, global)]
           ELSE /\ runpc' = AfterBatch(epIdx)
                /\ UNCHANGED wtime
    /\ UNCHANGED <<startTime, results, lastRequestTime, spawned, wpc, sent, started, startGap,
                   extractions, errors>>
    /\ UNCHANGED <<resolverVars, configVars, callVars, variables, clock, epIdx, runResults, summary>>

\* The sleep between two batches is over.
BatchWake ==
    /\ runpc = "sleep"
    /\ clock >= wtime[epIdx][1]
    /\ runpc' = AfterBatch(epIdx)
    /\ UNCHANGED <<resolverVars, configVars, callVars, variables, clock, epIdx, runResults,
                   summary, benchVars>>

\* The EndpointResult of the legacy benchmarkEndpoint (the timing fields are
\* left out).
LegacyEndpointResultOf(endpoint, res, errs) ==
    [name |-> endpoint.name,
     totalRequests |-> Len(res),
     successfulRequests |-> Cardinality({k \in DOMAIN res : res[k].success}),
     failedRequests |-> Len(res) - Cardinality({k \in DOMAIN res : res[k].success}),
     errors |-> Unique(errs)]

\* The while loop is over: benchmarkEndpoint returns its result (its locals
\* go out of scope); run pushes the result and moves to the next endpoint.
BatchReturn ==
    /\ \/ runpc = "return"
       \/ /\ runpc = "while"
          /\ ~ShouldContinue(processedEndpoints[epIdx], global, results[epIdx],
                             startTime[epIdx], clock)
    /\ runResults' = PushEndpointResult(
                         runResults,
                         LegacyEndpointResultOf(processedEndpoints[epIdx], results[epIdx],
                                                errors[epIdx]))
    /\ epIdx' = epIdx + 1
    /\ runpc' = "loop"
    /\ startTime' = [startTime EXCEPT ![epIdx] = 0]
    /\ results' = [results EXCEPT ![epIdx] = <<>>]
    /\ spawned' = [spawned EXCEPT ![epIdx] = 0]
    /\ started' = [started EXCEPT ![epIdx] = 0]
    /\ errors' = [errors EXCEPT ![epIdx] = <<>>]
    /\ extractions' = [extractions EXCEPT ![epIdx] = 0]
    /\ UNCHANGED <<lastRequestTime, wpc, wtime, sent, startGap>>
    /\ UNCHANGED <<resolverVars, configVars, callVars, variables, clock, summary>>

\* Time passes while benchmarkEndpoint is suspended in Promise.all or in the
\* sleep between two batches. The transport answers every request within
\* the timeout.
BatchTick ==
    /\ runpc \in {"await", "sleep"}
    /\ clock < Horizon
    /\ \A e \in EpIds : \A w \in InFlight(e) : clock - wtime[e][w] < LegacyTimeoutOf(global)
    /\ clock' = clock + 1
    /\ UNCHANGED <<resolverVars, configVars, callVars, variables, runpc, epIdx, runResults,
                   summary, benchVars>>

\* The policies of the legacy engine: as those of SpecBench, with one more
\* request, so that a batch after the first can be cut short.
InitBatch ==
    /\ endpoints \in BenchEndpointLists
    /\ ResolverInit
    /\ global \in [maxRequests : 1..(MaxRequests + 1), concurrent : 0..MaxConcurrent,
                    duration : Durations, throttle : Throttles, timeout : Timeouts]
    /\ requestDelay = 0
    /\ EngineInit

BatchNext ==
    \/ ResolveNext
    \/ BatchStart
    \/ BatchLaunch
    \/ \E e \in EpIds, w \in WorkerIds, answer \in Answers : BatchRespond(e, w, answer)
    \/ BatchEnd
    \/ BatchWake
    \/ BatchReturn
    \/ RunFinish
    \/ BatchTick

SpecBatch == InitBatch /\ [][BatchNext]_vars

(***************************************************************************)
(* SpecValidate: one call of run on a configuration that                   *)
(* ConfigValidator.validate may reject: an endpoint list of at most two    *)
(* endpoints, possibly empty, with names that may repeat and dependencies  *)
(* that may name the endpoint itself or no endpoint at all.                *)
(***************************************************************************)
\* The names endpoints and dependencies are drawn from; no endpoint is
\* called Z.
RawNames == {"A", "B"}

RawDependencies == {{}} \cup {{name} : name \in RawNames \cup {"Z"}}

RawEndpointLists ==
    UNION {[1..n -> {RunEndpoint(name, deps) : name \in RawNames,
                                               deps \in RawDependencies}]
             : n \in 0..2}

\* endpointNames.has(endpoint.name) for an endpoint before position k
DuplicateAt(eps, k) == \E j \in 1..(k - 1) : eps[j].name = eps[k].name

\* validateDependencies: the dependencies of the endpoint that name no
\* endpoint, and whether it depends on itself.
UnknownDependencies(eps, k) ==
    {dep \in eps[k].dependencies : \A j \in DOMAIN eps : eps[j].name # dep}

SelfDependency(eps, k) == eps[k].name \in eps[k].dependencies

\* A faulty variant of Validate: validateDependencies is not called.
ValidateWithoutDependencies(eps) ==
    IF Len(eps) = 0 THEN Threw("At least one endpoint is required")
    ELSE IF \E k \in DOMAIN eps : DuplicateAt(eps, k)
    THEN Threw("Duplicate endpoint name")
    ELSE Returned(eps)

\* ConfigValidator.validate on a config whose endpoints are eps (each of
\* them passes validateEndpoint, and no endpoint has more than one
\* dependency): the config is returned or a ConfigValidationError is thrown.
Validate(eps) ==
    IF Len(eps) = 0 THEN Threw("At least one endpoint is required")
    ELSE IF \E k \in DOMAIN eps : DuplicateAt(eps, k)
    THEN Threw("Duplicate endpoint name")
    ELSE IF \E k \in DOMAIN eps :
               UnknownDependencies(eps, k) # {} \/ SelfDependency(eps, k)
    THEN LET k == CHOOSE j \in DOMAIN eps :
                      /\ UnknownDependencies(eps, j) # {} \/ SelfDependency(eps, j)
                      /\ \A h \in 1..(j - 1) :
                            UnknownDependencies(eps, h) = {} /\ ~SelfDependency(eps, h)
         IN  IF UnknownDependencies(eps, k) # {}
             THEN Threw("depends on an endpoint which doesn't exist")
             ELSE Threw("cannot depend on itself")
    ELSE Returned(eps)

\* A faulty variant of AfterValidation: the error is ignored.
AfterValidationIgnored(validated) == "resolve"

\* const validatedConfig = ConfigValidator.validate(config): an error thrown
\* by validate leaves run at once.
AfterValidation(validated) == IF validated.threw THEN "threw" ELSE "resolve"

\* The first statement of run.
RunValidate ==
    /\ runpc = "validate"
    /\ call' = [op |-> "validate", out |-> Validate(endpoints)]
    /\ runpc' = AfterValidation(Validate(endpoints))
    /\ UNCHANGED <<resolverVars, configVars, benchVars, variables, clock, epIdx,
                   runResults, summary>>

InitValidate ==
    /\ endpoints \in RawEndpointLists
    /\ ResolverInit
    /\ \E p \in RunPolicies :
          /\ global = p.global
          /\ requestDelay = p.delay
    /\ EngineAt("validate")

ValidateNext ==
    \/ RunValidate
    \/ Next

SpecValidate == InitValidate /\ [][ValidateNext]_vars

(***************************************************************************)
(* SpecRuns: run called a second time on the same engine, after the first  *)
(* call has returned, with the same configuration of one endpoint that     *)
(* both extracts the variable userId and uses it in its url.               *)
(***************************************************************************)
RunsEndpointLists ==
    {<<[RunEndpoint("A", {}) EXCEPT !.url = <<"/">> \o Marker(UserId)]>>}

\* run is called again: its locals are new (startTime, results, the locals
\* of resolveDependencies and benchmarkEndpoint); the fields of the engine,
\* this.variables and this.requestDelay, are what the first call left.
RunAgain ==
    /\ runpc = "done"
    /\ call = NoCall
    /\ call' = [op |-> "run", at |-> clock]
    /\ rpc' = "start"
    /\ resolved' = <<>>
    /\ remaining' = <<>>
    /\ before' = 0
    /\ i' = 0
    /\ warned' = FALSE
    /\ passes' = 0
    /\ processedEndpoints' = <<>>
    /\ runpc' = "resolve"
    /\ epIdx' = 0
    /\ runResults' = <<>>
    /\ summary' = [totalRequests |-> 0, totalSuccessful |-> 0, totalFailed |-> 0]
    /\ startTime' = [e \in EpIds |-> 0]
    /\ results' = [e \in EpIds |-> <<>>]
    /\ lastRequestTime' = [e \in EpIds |-> 0]
    /\ spawned' = [e \in EpIds |-> 0]
    /\ wpc' = [e \in EpIds |-> [w \in WorkerIds |-> "none"]]
    /\ wtime' = [e \in EpIds |-> [w \in WorkerIds |-> 0]]
    /\ sent' = [e \in EpIds |-> [w \in WorkerIds |-> NoRequest]]
    /\ started' = [e \in EpIds |-> 0]
    /\ startGap' = [e \in EpIds |-> NoGap]
    /\ extractions' = [e \in EpIds |-> 0]
    /\ errors' = [e \in EpIds |-> <<>>]
    /\ UNCHANGED <<endpoints, configVars, variables, clock>>

InitRuns ==
    /\ endpoints \in RunsEndpointLists
    /\ ResolverInit
    /\ global \in [maxRequests : 1..MaxRequests, concurrent : {1}, duration : {0},
                    throttle : Throttles, timeout : Timeouts]
    /\ requestDelay \in Delays
    /\ EngineInit

RunsNext ==
    \/ Next
    \/ RunAgain

SpecRuns == InitRuns /\ [][RunsNext]_vars

(***************************************************************************)
(* SpecCalls: extractVariables, replaceVariables, replaceVariablesInObject *)
(* and makeRequest called on their own, in any order, on an engine whose   *)
(* Variable Environment starts empty.                                      *)
(***************************************************************************)
\* The longest text handed to replaceVariables, in pieces of TextPieces.
MaxPieces == 2

\* The longest list of extraction rules handed to extractVariables.
MaxRules == 2

\* Variable names: x and y are names of letters, ( is a name that is no
\* regular expression.
X == <<"x">>

Y == <<"y">>

ParenName == <<"(">>

\* Keys of bodies and headers.
A == <<"a">>

B == <<"b">>

U == <<"u">>

I == <<"i">>

T == <<"t">>

\* The values responses carry at path u.i: a plain string, a string that
\* holds the replacement pattern $&, a string that is the marker of y, and a
\* number.
CallValues == {Str(<<"v">>), Str(<<"$", "&">>), Str(Marker(Y)), Num(3)}

\* Response bodies: an object with the nested path u.i, an object whose u is
\* null, an object without u, an array, and a body that is a text.
CallBodies ==
    {Obj(U :> Obj(I :> value)) : value \in CallValues}
        \cup {Obj(U :> Null),
              Obj(MsgPath :> Str(<<"e">>)),
              Arr(<<Obj(I :> Str(<<"v">>))>>),
              Str(<<"o", "k">>)}

CallHeaders == {Obj(T :> Str(<<"v">>)), Obj(<<>>)}

\* Extraction rules: path u.i, path 0.i (into an array), path u..i (with an
\* empty segment), and the header t.
CallRules ==
    {[name |-> X, path |-> <<"u", ".", "i">>, from |-> "response"],
     [name |-> ParenName, path |-> <<"u", ".", "i">>, from |-> "response"],
     [name |-> X, path |-> <<"0", ".", "i">>, from |-> "response"],
     [name |-> X, path |-> <<"u", ".", ".", "i">>, from |-> "response"],
     [name |-> Y, path |-> T, from |-> "headers"]}

RuleLists == UNION {[1..n -> CallRules] : n \in 1..MaxRules}

TextPieces == {Marker(X), Marker(Y), <<"a">>, <<"{">>, <<"}">>, <<"x">>}

RECURSIVE TextsOf(_)
TextsOf(n) ==
    IF n = 0 THEN {<<>>}
    ELSE LET shorter == TextsOf(n - 1)
         IN  shorter \cup {text \o piece : text \in shorter, piece \in TextPieces}

Texts == TextsOf(MaxPieces)

\* Headers and bodies of endpoints: nested objects and arrays with string
\* and non-string leaves, and values that are no object.
CallObjects ==
    {Obj(A :> Str(Marker(X)) @@ B :> Num(3)),
     Arr(<<Str(Marker(X)), Num(0), Null, Bool(FALSE), Bool(TRUE)>>),
     Obj(A :> Arr(<<Str(Marker(Y)), Obj(B :> Str(Marker(X)))>>) @@ B :> Null),
     Obj(<<>>),
     Arr(<<>>),
     Str(Marker(X)),
     Str(<<>>),
     Num(3),
     Null,
     Undefined}

\* The request part of endpoints: a url with a marker, with and without
\* headers and body.
CallEndpoints ==
    {[url |-> <<"/">> \o Marker(X), headers |-> Undefined, body |-> Undefined],
     [url |-> <<"/">> \o Marker(X), headers |-> Obj(A :> Str(Marker(X))),
      body |-> Obj(A :> Str(Marker(X)) @@ B :> Num(3))],
     [url |-> <<"/">>, headers |-> Undefined, body |-> Str(Marker(Y))]}

\* The status codes of responses.
Statuses == {199, 200, 204, 299, 300, 302, 399, 400, 404, 500}

CallAnswers ==
    {[kind |-> "response", status |-> status, body |-> Obj(I :> Str(<<"v">>)),
      headers |-> Obj(<<>>)] : status \in Statuses}
        \cup TransportErrors

\* this.extractVariables(extractions, responseData, headers)
ExtractVariablesCall(rules, responseData, headers) ==
    /\ call = NoCall
    /\ variables' = ExtractVariables(variables, rules, responseData, headers)
    /\ call' = [op |-> "extractVariables", env |-> variables, rules |-> rules,
                responseData |-> responseData, headers |-> headers]
    /\ UNCHANGED <<resolverVars, configVars, benchVars, clock, runpc, epIdx, runResults,
                   summary>>

\* this.replaceVariables(text)
ReplaceVariablesCall(text) ==
    /\ call = NoCall
    /\ call' = [op |-> "replaceVariables", text |-> text,
                out |-> ReplaceVariables(variables, text)]
    /\ UNCHANGED <<resolverVars, configVars, runVars, benchVars>>

\* this.replaceVariablesInObject(obj)
ReplaceVariablesInObjectCall(obj) ==
    /\ call = NoCall
    /\ call' = [op |-> "replaceVariablesInObject", obj |-> obj,
                out |-> ReplaceVariablesInObject(variables, obj)]
    /\ UNCHANGED <<resolverVars, configVars, runVars, benchVars>>

\* await this.makeRequest(endpoint, timeout), the transport answering after
\* responseTime milliseconds.
MakeRequestCall(endpoint, answer, responseTime) ==
    /\ call = NoCall
    /\ call' = [op |-> "makeRequest", endpoint |-> endpoint, answer |-> answer,
                responseTime |-> responseTime,
                out |-> MakeRequest(endpoint, variables, answer, responseTime)]
    /\ UNCHANGED <<resolverVars, configVars, runVars, benchVars>>

\* The names of the variables that are logged: names with a sensitive
\* pattern in lower, upper and mixed case, and names without one.
LogNames ==
    {<<"a", "u", "t", "h", "T", "o", "k", "e", "n">>,
     <<"A", "P", "I", "_", "K", "E", "Y">>,
     <<"S", "e", "s", "s", "i", "o", "n">>,
     UserId,
     X}

\* The values that are logged: texts of 1, 8, 9 and 12 characters, a text
\* longer than MaxLogLength, and a number.
LogValues ==
    {Str(<<"v">>),
     Str(<<"s", "3", "c", "r", "3", "t", "-", "1">>),
     Str(<<"s", "3", "c", "r", "3", "t", "-", "1", "2">>),
     Str(<<"t", "0", "p", "-", "s", "3", "c", "r", "3", "t", "-", "1">>),
     Str(<<"t", "0", "p", "-", "s", "3", "c", "r", "3", "t", "-", "2">>),
     Str([k \in 1..(MaxLogLength + 1) |-> "a"]),
     Num(3)}

\* this.sanitizeForLogging(value, variableName), of an engine of class
\* Glockit or of class BarbariansBench.
SanitizeForLoggingCall(class, value, variableName) ==
    /\ call = NoCall
    /\ call' = [op |-> "sanitizeForLogging", class |-> class, value |-> value,
                variableName |-> variableName,
                out |-> IF class = "Glockit"
                        THEN SanitizeForLogging(value, variableName)
                        ELSE LegacySanitizeForLogging(value, variableName)]
    /\ UNCHANGED <<resolverVars, configVars, runVars, benchVars>>

\* The call is over and its caller has taken what it gave.
CallReturn ==
    /\ call # NoCall
    /\ call' = NoCall
    /\ UNCHANGED <<resolverVars, configVars, runVars, benchVars>>

CallsNext ==
    \/ \E rules \in RuleLists, responseData \in CallBodies, headers \in CallHeaders :
          ExtractVariablesCall(rules, responseData, headers)
    \/ \E text \in Texts : ReplaceVariablesCall(text)
    \/ \E obj \in CallObjects : ReplaceVariablesInObjectCall(obj)
    \/ \E endpoint \in CallEndpoints, answer \in CallAnswers, responseTime \in 1..MaxTime :
          MakeRequestCall(endpoint, answer, responseTime)
    \/ \E class \in {"Glockit", "BarbariansBench"}, value \in LogValues,
          variableName \in LogNames :
            SanitizeForLoggingCall(class, value, variableName)
    \/ CallReturn

\* An engine that has just been constructed: no run has been called.
InitCalls ==
    /\ endpoints \in BenchEndpointLists
    /\ ResolverInit
    /\ global = [maxRequests |-> 1, concurrent |-> 1, duration |-> 0, throttle |-> 0,
                 timeout |-> 0]
    /\ requestDelay = 0
    /\ EngineInit

SpecCalls == InitCalls /\ [][CallsNext]_vars

(***************************************************************************)
(* SpecStats: the response time statistics of benchmarkEndpoint computed   *)
(* on their own, for every list of at most MaxOutcomes outcomes.           *)
(***************************************************************************)
\* The longest list of outcomes the statistics are computed for.
MaxOutcomes == 3

\* The outcomes of requests: what makeRequest returns for a response and for
\* a transport error, which took at least a millisecond, and the synthetic
\* failure executeRequest pushes, whose responseTime is 0.
Outcomes ==
    {[success |-> IsSuccess(status), responseTime |-> responseTime]
        : status \in {200, 500}, responseTime \in 1..MaxTime}
      \cup {[success |-> FailedResult(message, responseTime).success,
             responseTime |-> FailedResult(message, responseTime).responseTime]
               : message \in {"timeout exceeded"}, responseTime \in 0..MaxTime}

OutcomeLists == UNION {[1..n -> Outcomes] : n \in 0..MaxOutcomes}

\* benchmarkEndpoint computes the response time statistics of res.
ResponseTimeStatsCall(res) ==
    /\ call = NoCall
    /\ call' = [op |-> "responseTimeStats", results |-> res,
                out |-> ResponseTimeStats(res)]
    /\ UNCHANGED <<resolverVars, configVars, runVars, benchVars>>

StatsNext ==
    \/ \E res \in OutcomeLists : ResponseTimeStatsCall(res)
    \/ CallReturn

SpecStats == InitCalls /\ [][StatsNext]_vars

(***************************************************************************)
(* SpecPolicy: the stop condition of benchmarkEndpoint evaluated on its    *)
(* own, under every policy within the bounds, for every number of outcomes *)
(* recorded and every time elapsed.                                        *)
(***************************************************************************)
\* The numbers of outcomes recorded.
OutcomeCounts == (0..(MaxRequests + 1)) \cup {SafetyCap - 1, SafetyCap, SafetyCap + 1}

\* shouldContinue() with count outcomes recorded, elapsed milliseconds after
\* startTime.
ShouldContinueCall(count, elapsed) ==
    /\ call = NoCall
    /\ call' = [op |-> "shouldContinue", count |-> count, elapsed |-> elapsed,
                out |-> ShouldContinue(endpoints[1], global,
                                       [k \in 1..count |-> FailedResult("none", 0)],
                                       clock, clock + elapsed)]
    /\ UNCHANGED <<resolverVars, configVars, runVars, benchVars>>

\* The values of an optional numeric option: not set, or one of the numbers.
Optional(numbers) == {Undefined} \cup {Num(n) : n \in numbers}

\* The head of the worker loop decides on the delay, elapsed milliseconds
\* after the last request was sent, for an endpoint and a global config with
\* these requestDelay options.
DelayNeededCall(endpointDelay, globalDelay, elapsed) ==
    /\ call = NoCall
    /\ call' = [op |-> "delayNeeded", endpointDelay |-> endpointDelay,
                globalDelay |-> globalDelay, elapsed |-> elapsed,
                requestDelay |-> RequestDelayOf(endpointDelay, globalDelay, requestDelay),
                out |-> DelayNeeded(clock + elapsed, clock)]
    /\ UNCHANGED <<resolverVars, configVars, runVars, benchVars>>

\* benchmarkEndpoint computes the throttle of an endpoint and a global config
\* with these throttle options.
ThrottleOfCall(endpointThrottle, globalThrottle) ==
    /\ call = NoCall
    /\ call' = [op |-> "throttle", endpointThrottle |-> endpointThrottle,
                globalThrottle |-> globalThrottle,
                out |-> ThrottleOf(
                            [endpoints[1] EXCEPT !.throttle = NumberOrZero(endpointThrottle)],
                            [global EXCEPT !.throttle = NumberOrZero(globalThrottle)])]
    /\ UNCHANGED <<resolverVars, configVars, runVars, benchVars>>

\* The delay arguments an engine is constructed with: none, a configured
\* delay, or a negative number.
ConstructorArguments == Optional(Delays \cup {0 - 1})

\* new Glockit(delay): from now on the engine is the new one, which has made
\* no request.
ConstructorCall(delay) ==
    /\ call = NoCall
    /\ call' = [op |-> "constructor", delay |-> delay]
    /\ requestDelay' = ConstructorDelay(delay)
    /\ UNCHANGED <<resolverVars, global, runVars, benchVars>>

PolicyNext ==
    \/ \E count \in OutcomeCounts, elapsed \in 0..MaxTime : ShouldContinueCall(count, elapsed)
    \/ \E endpointDelay \in Optional(Delays), globalDelay \in Optional(Delays),
          elapsed \in 0..MaxTime :
            DelayNeededCall(endpointDelay, globalDelay, elapsed)
    \/ \E endpointThrottle \in Optional(Throttles), globalThrottle \in Optional(Throttles) :
          ThrottleOfCall(endpointThrottle, globalThrottle)
    \/ \E delay \in ConstructorArguments : ConstructorCall(delay)
    \/ CallReturn

SpecPolicy == InitBench /\ [][PolicyNext]_vars

(***************************************************************************)
(* The dependency graph of an endpoint list, for the resolver's            *)
(* properties.                                                             *)
(***************************************************************************)
DirectDeps(eps, name) == eps[PosOf(eps, name)].dependencies

RECURSIVE DepsClosure(_, _, _)
DepsClosure(eps, S, k) ==
    IF k = 0 THEN S
    ELSE DepsClosure(eps, S \cup UNION {DirectDeps(eps, x) : x \in S}, k - 1)

\* Every endpoint name reachable from name along one or more dependency edges.
TransDeps(eps, name) == DepsClosure(eps, DirectDeps(eps, name), Len(eps))

OnCycle(eps, name) == name \in TransDeps(eps, name)

HasCycle(eps) == \E k \in DOMAIN eps : OnCycle(eps, eps[k].name)

\* The endpoints no pass can ever move: cycle members and what depends on them.
Stuck(eps) ==
    {k \in DOMAIN eps :
        \E x \in TransDeps(eps, eps[k].name) \cup {eps[k].name} : OnCycle(eps, x)}

\* The elements of s at the positions in K, in the order of s.
RECURSIVE Filter(_, _)
Filter(s, K) ==
    IF s = <<>> THEN <<>>
    ELSE Filter(SubSeq(s, 1, Len(s) - 1), K)
            \o (IF Len(s) \in K THEN <<s[Len(s)]>> ELSE <<>>)

IsPermutation(out, inp) ==
    /\ Len(out) = Len(inp)
    /\ \A k \in DOMAIN inp :
          Cardinality({j \in DOMAIN out : out[j] = inp[k]}) = 1

Unconstrained(eps, a, b) ==
    /\ a \notin TransDeps(eps, b)
    /\ b \notin TransDeps(eps, a)

(***************************************************************************)
(* Properties of resolveDependencies (under SpecResolve).                  *)
(***************************************************************************)

\* C3: for every acyclic input whose dependency names all reference existing
\* endpoints, the returned order places every dependency X of every endpoint Y
\* before Y.
C3_DependenciesFirst ==
    (rpc = "done" /\ ~HasCycle(endpoints)) =>
        \A y \in DOMAIN processedEndpoints :
            \A x \in processedEndpoints[y].dependencies :
                /\ PosOf(processedEndpoints, x) >= 1
                /\ PosOf(processedEndpoints, x) < y

\* C3 witness: a chain given in dependent-first order was resolved: the
\* returned order differs from the input order.
C3_Witness ==
    /\ rpc = "done"
    /\ ~HasCycle(endpoints)
    /\ Len(endpoints) = 3
    /\ endpoints[1].dependencies = {"B"}
    /\ endpoints[2].dependencies = {"C"}
    /\ processedEndpoints # endpoints

\* C4: for every input list, acyclic or cyclic, the output is a permutation of
\* the input: same length, every input endpoint exactly once.
C4_Permutation ==
    rpc = "done" => IsPermutation(processedEndpoints, endpoints)

\* C4 witness: a cyclic input of three endpoints, one of them resolvable, was
\* resolved through the circular-dependency branch.
C4_Witness ==
    /\ rpc = "done"
    /\ warned
    /\ Len(endpoints) = 3
    /\ Cardinality(Stuck(endpoints)) = 2

\* C9: when a full pass moves no endpoint (a dependency cycle), the resolver
\* neither throws nor loops: it warns and appends all still-unresolved endpoints
\* in their original relative input order; without a cycle no warning is given.
\* The number of passes never exceeds the number of endpoints.
C9_CycleFallback ==
    /\ passes <= Len(endpoints)
    /\ rpc = "done" =>
        /\ warned <=> HasCycle(endpoints)
        /\ HasCycle(endpoints) =>
            /\ Len(processedEndpoints) = Len(endpoints)
            /\ SubSeq(processedEndpoints,
                      Len(endpoints) - Cardinality(Stuck(endpoints)) + 1,
                      Len(endpoints))
                 = Filter(endpoints, Stuck(endpoints))

\* C9 witness: the 2-endpoint cycle A <-> B was resolved with a warning and
\* both endpoints are in the output.
C9_Witness ==
    /\ rpc = "done"
    /\ warned
    /\ Len(endpoints) = 2
    /\ endpoints[1].dependencies = {"B"}
    /\ endpoints[2].dependencies = {"A"}
    /\ processedEndpoints = endpoints

\* C10: the resolver is stable: any two endpoints with no ordering constraint
\* between them (neither depends, directly or transitively, on the other) keep
\* their relative input order in the output; an input without dependencies is
\* returned in its original order.
C10_Stable ==
    rpc = "done" =>
        \A a, b \in DOMAIN endpoints :
            (a < b /\ Unconstrained(endpoints, endpoints[a].name, endpoints[b].name)) =>
                PosOf(processedEndpoints, endpoints[a].name)
                    < PosOf(processedEndpoints, endpoints[b].name)

(***************************************************************************)
(* Properties of run and benchmarkEndpoint (under Spec).                   *)
(***************************************************************************)
\* The invocations of benchmarkEndpoint that exist: one per resolved endpoint.
Invocations == {e \in EpIds : rpc = "done" /\ e <= Len(processedEndpoints)}

\* benchmarkEndpoint of the current endpoint is about to return.
Returning == runpc = "await" /\ Active(epIdx) = {}

Successes(res) == {k \in DOMAIN res : res[k].success}

\* C1: in count mode (no positive global duration) the number of outcomes
\* recorded for one endpoint never exceeds that endpoint's maxRequests, for
\* every concurrency level and every interleaving of worker completions.
C1_CountNeverExceedsMax ==
    \A e \in Invocations :
        ~UseDuration(global) =>
            Len(results[e]) <= MaxRequestsOf(processedEndpoints[e], global)

\* C2: while an endpoint is being benchmarked, the number of simultaneously
\* in-flight requests of that endpoint never exceeds the configured global
\* concurrent limit (1 when not configured), in count and in duration mode.
C2_ConcurrencyLimit ==
    \A e \in EpIds : Cardinality(InFlight(e)) <= ConfiguredConcurrent(global)

\* C2 witness: in duration mode two requests of one endpoint are in flight
\* under a limit of two, after an earlier outcome was recorded.
C2_Witness ==
    \E e \in Invocations :
        /\ UseDuration(global)
        /\ global.concurrent = 2
        /\ Cardinality(InFlight(e)) = 2
        /\ Len(results[e]) >= 1

\* C5: run processes endpoints strictly one after another in resolved order:
\* every request in flight or pending belongs to the current endpoint, and
\* when an endpoint has started a request every preceding endpoint has
\* completed all of its requests and its result has been recorded, in
\* resolved order.
C5_StrictlySequential ==
    /\ \A e \in EpIds : e # epIdx => Active(e) = {}
    /\ \A e \in Invocations :
          started[e] > 0 =>
              /\ e = epIdx
              /\ Len(runResults) = e - 1
    /\ \A k \in DOMAIN runResults : runResults[k].name = processedEndpoints[k].name

\* C5 witness: a request of the second endpoint, which depends on the first,
\* is in flight after the first endpoint completed and bound its variable.
C5_Witness ==
    /\ rpc = "done"
    /\ Len(processedEndpoints) = 2
    /\ epIdx = 2
    /\ InFlight(2) # {}
    /\ processedEndpoints[2].dependencies = {processedEndpoints[1].name}
    /\ processedEndpoints # endpoints
    /\ Len(runResults) = 1
    /\ runResults[1].successfulRequests >= 1
    /\ HasVariable(variables, UserId)

\* The successful outcomes of res whose body holds path id.
Carriers(res) == {k \in Successes(res) : GetValueByPath(res[k].data, IdPath) # Undefined}

\* C6 (as claimed): only the first successful response observed for an
\* endpoint triggers extraction: extraction fires at most once per endpoint,
\* and each variable holds the value of that first successful response.
C6_FirstSuccessOnly ==
    \A e \in Invocations :
        /\ extractions[e] <= 1
        /\ (Len(processedEndpoints[e].variables) > 0 /\ Carriers(results[e]) # {}) =>
              LET first == CHOOSE k \in Carriers(results[e]) :
                               \A j \in Carriers(results[e]) : k <= j
              IN  GetVariable(variables, UserId)
                      = GetValueByPath(results[e][first].data, IdPath)

\* C6 (amended): every successful response of an endpoint with extraction
\* rules triggers extraction, last write wins: extraction has fired once per
\* successful outcome, and each variable holds the value of the last
\* successful response recorded that carried a value for it (it is unbound
\* when there was none).
C6_LastSuccessWins ==
    \A e \in Invocations :
        Len(processedEndpoints[e].variables) > 0 =>
            /\ extractions[e] = Cardinality(Successes(results[e]))
            /\ Carriers(results[e]) # {} =>
                  LET last == CHOOSE k \in Carriers(results[e]) :
                                  \A j \in Carriers(results[e]) : k >= j
                  IN  /\ HasVariable(variables, UserId)
                      /\ GetVariable(variables, UserId)
                             = GetValueByPath(results[e][last].data, IdPath)
            /\ (Carriers(results[e]) = {} /\ e = 1 /\ epIdx = 1) =>
                  ~HasVariable(variables, UserId)

\* C6 witness: an endpoint is about to return with two successful outcomes
\* carrying different values; the variable holds the second one.
C6_Witness ==
    /\ Returning
    /\ Len(results[epIdx]) = 2
    /\ results[epIdx][1].success
    /\ results[epIdx][2].success
    /\ GetValueByPath(results[epIdx][1].data, IdPath) = Str(<<"u", "-", "1">>)
    /\ GetValueByPath(results[epIdx][2].data, IdPath) = Str(<<"u", "-", "2">>)
    /\ extractions[epIdx] = 2
    /\ GetVariable(variables, UserId) = Str(<<"u", "-", "2">>)

\* C7: requestDelay is a global minimum spacing for an endpoint: any two
\* successive request starts of the same endpoint, across all of its workers,
\* are at least requestDelay milliseconds apart.
C7_GlobalSpacing ==
    \A e \in EpIds : startGap[e] # NoGap => startGap[e] >= requestDelay

\* C8: every request a worker starts runs to completion and contributes
\* exactly one outcome: at every moment the requests started are the outcomes
\* recorded plus the requests in flight, and when benchmarkEndpoint returns
\* totalRequests equals the number of requests started.
C8_OneOutcomePerRequest ==
    /\ \A e \in EpIds : started[e] = Len(results[e]) + Cardinality(InFlight(e))
    /\ Returning =>
          EndpointResultOf(processedEndpoints[epIdx], results[epIdx],
                           errors[epIdx]).totalRequests
              = started[epIdx]

\* C8 witness: benchmarkEndpoint is about to return after three requests of
\* two workers, one of them failed.
C8_Witness ==
    /\ Returning
    /\ started[epIdx] = 3
    /\ spawned[epIdx] = 2
    /\ \E k \in DOMAIN results[epIdx] : ~results[epIdx][k].success

(***************************************************************************)
(* Properties of the stop condition (under SpecPolicy and SpecBench).      *)
(***************************************************************************)
\* C11: in duration mode a safety cap of 10,000 total requests ends an
\* endpoint's loop regardless of elapsed time: once 10,000 outcomes are
\* recorded the stop condition lets no worker start another request, even
\* when the clock has not reached the configured duration.
C11_SafetyCapStopsLoop ==
    (call.op = "shouldContinue" /\ UseDuration(global) /\ call.count >= SafetyCap) =>
        ~call.out

\* Worker w of invocation e passes the head of its loop in this step and
\* goes on to a request (or to the sleep before it).
GoesOn(e, w) ==
    \/ wpc[e][w] \in {"none", "throttle", "inflight"} /\ wpc'[e][w] = "delay"
    \/ wpc[e][w] \in {"none", "throttle"} /\ wpc'[e][w] = "inflight"
    \/ wpc[e][w] = "inflight" /\ wpc'[e][w] = "inflight" /\ wtime'[e][w] # wtime[e][w]

\* Worker w of invocation e passes the head of its loop in this step and
\* leaves the loop.
LeavesLoop(e, w) == wpc[e][w] # "done" /\ wpc'[e][w] = "done"

\* C12: when global.duration is configured and positive a worker starts
\* another request exactly when elapsed < duration, whatever maxRequests and
\* the number of outcomes are; when duration is absent it starts another
\* request exactly when the number of outcomes is below maxRequests.
C12_ModeSelection ==
    [][\A e \in Invocations : \A w \in WorkerIds :
          LET elapsed == clock' - startTime'[e]
              count == Len(results'[e])
              maxRequests == MaxRequestsOf(processedEndpoints[e], global)
          IN  IF UseDuration(global)
              THEN /\ GoesOn(e, w) => elapsed < global.duration
                   /\ LeavesLoop(e, w) => elapsed >= global.duration
              ELSE /\ GoesOn(e, w) => count < maxRequests
                   /\ LeavesLoop(e, w) => count >= maxRequests]_vars

\* C12 witness: in duration mode with maxRequests = 1 a request is in flight
\* after the first outcome was recorded.
C12_Witness ==
    /\ UseDuration(global)
    /\ global.maxRequests = 1
    /\ runpc = "await"
    /\ Len(results[epIdx]) = 1
    /\ InFlight(epIdx) # {}

\* C13: in count mode with concurrent = 1, for every maxRequests = n >= 1,
\* benchmarkEndpoint produces exactly n outcomes and issues them one at a
\* time: a request starts only after the previous request's outcome has been
\* recorded.
C13_OneAtATime ==
    \A e \in Invocations :
        (~UseDuration(global) /\ ConfiguredConcurrent(global) = 1) =>
            /\ Cardinality(InFlight(e)) <= 1
            /\ started[e] <= Len(results[e]) + 1
            /\ InFlight(e) # {} => started[e] = Len(results[e]) + 1
            /\ Len(results[e]) <= MaxRequestsOf(processedEndpoints[e], global)
            /\ (e = epIdx /\ Returning) =>
                  Len(results[e]) = MaxRequestsOf(processedEndpoints[e], global)

\* C13 witness: with concurrent = 1 and maxRequests = 2 benchmarkEndpoint is
\* about to return with two outcomes, the first of them a failure.
C13_Witness ==
    /\ ~UseDuration(global)
    /\ global.concurrent = 1
    /\ global.maxRequests = 2
    /\ Returning
    /\ Len(results[epIdx]) = 2
    /\ ~results[epIdx][1].success
    /\ results[epIdx][2].success
    /\ started[epIdx] = 2

(***************************************************************************)
(* Properties of run under failing requests (under Spec).                  *)
(***************************************************************************)
\* C14: request failures and extraction failures never abort a run: for every
\* pattern of failing requests, all requests failing included, run returns
\* exactly one EndpointStats per configured endpoint, in resolved order, and
\* the failed requests are counted in it.
C14_FailuresNeverAbort ==
    /\ Len(runResults) <= Len(processedEndpoints)
    /\ \A k \in DOMAIN runResults :
          /\ runResults[k].name = processedEndpoints[k].name
          /\ runResults[k].totalRequests
                = runResults[k].successfulRequests + runResults[k].failedRequests
    /\ runpc = "done" =>
          /\ Len(runResults) = Len(endpoints)
          /\ summary.totalRequests = summary.totalSuccessful + summary.totalFailed

\* C14 witness: run has returned the statistics of both endpoints after every
\* request of both had failed and no variable was bound.
C14_Witness ==
    /\ runpc = "done"
    /\ Len(runResults) = 2
    /\ processedEndpoints # endpoints
    /\ summary.totalSuccessful = 0
    /\ summary.totalFailed >= 2
    /\ variables = <<>>

(***************************************************************************)
(* Properties of makeRequest (under SpecCalls).                            *)
(***************************************************************************)
\* The Variable Environment holds a name that is no regular expression:
\* replaceVariables throws on every text that is not empty.
TemplateFails == HasVariable(variables, ParenName)

\* C15: makeRequest never lets a fault escape: on a transport failure or an
\* error during template resolution it returns a RequestOutcome with
\* success = false, the error message and the measured elapsed time.
C15_NoFaultEscapes ==
    call.op = "makeRequest" =>
        /\ ~call.out.threw
        /\ call.out.value.responseTime = call.responseTime
        /\ TemplateFails =>
              /\ ~call.out.value.success
              /\ call.out.value.error = "Invalid regular expression"
        /\ (~TemplateFails /\ call.answer.kind = "error") =>
              /\ ~call.out.value.success
              /\ call.out.value.error = call.answer.message
        /\ (~TemplateFails /\ call.answer.kind = "response") =>
              call.out.value.error = Undefined

\* C15 witness: makeRequest has returned a failed outcome with the message of
\* the error thrown during template resolution, for a request the transport
\* would have answered with status 200.
C15_Witness ==
    /\ call.op = "makeRequest"
    /\ TemplateFails
    /\ call.answer.kind = "response"
    /\ call.answer.status = 200
    /\ ~call.out.threw
    /\ ~call.out.value.success
    /\ call.out.value.error = "Invalid regular expression"
    /\ call.out.value.responseTime = 2

\* makeRequest has classified the status code of a response.
Classified ==
    /\ call.op = "makeRequest"
    /\ call.answer.kind = "response"
    /\ ~call.out.threw
    /\ call.out.value.statusCode = Num(call.answer.status)

\* C16: makeRequest classifies an outcome as successful exactly
\* when the response status code lies in [200, 400).
C16_SuccessBelow400 ==
    Classified =>
        (call.out.value.success <=> (call.answer.status >= 200 /\ call.answer.status < 400))

(***************************************************************************)
(* Properties of replaceVariables and replaceVariablesInObject (under      *)
(* SpecCalls).                                                             *)
(***************************************************************************)
\* The text with every marker of a bound name replaced by the string-coerced
\* bound value, read from position p on; everything else stays as it is.
RECURSIVE Substituted(_, _, _)
Substituted(env, text, p) ==
    IF p > Len(text) THEN <<>>
    ELSE IF \E k \in DOMAIN env : Matches(text, p, Marker(env[k].key))
    THEN LET k == CHOOSE j \in DOMAIN env : Matches(text, p, Marker(env[j].key))
         IN  StringOf(env[k].value)
                \o Substituted(env, text, p + Len(Marker(env[k].key)))
    ELSE <<text[p]>> \o Substituted(env, text, p + 1)

\* C17: replaceVariables replaces every {{name}} marker whose name is bound in
\* the Variable Environment by the string-coerced bound value and leaves every
\* marker whose name has no binding verbatim, without raising an error; stated
\* for environments whose names are made of letters.
C17_MarkersReplacedByValue ==
    (call.op = "replaceVariables" /\ ~TemplateFails) =>
        /\ ~call.out.threw
        /\ call.out.value = Substituted(variables, call.text, 1)

\* What replaceVariablesInObject gave has the shape of what it was given:
\* arrays of the same length in the same order, objects with the same keys,
\* string leaves holding what replaceVariables gives for them and every
\* other leaf as it was.
RECURSIVE Preserved(_, _, _)
Preserved(env, given, gave) ==
    IF given.t = "array"
    THEN /\ gave.t = "array"
         /\ Len(gave.a) = Len(given.a)
         /\ \A k \in DOMAIN given.a : Preserved(env, given.a[k], gave.a[k])
    ELSE IF given.t = "object"
    THEN /\ gave.t = "object"
         /\ DOMAIN gave.f = DOMAIN given.f
         /\ \A key \in DOMAIN given.f : Preserved(env, given.f[key], gave.f[key])
    ELSE IF given.t = "string"
    THEN gave = Str(ReplaceVariables(env, given.s).value)
    ELSE gave = given

\* C18: replaceVariablesInObject recurses through nested objects and arrays,
\* substitutes only string leaves and leaves every non-string leaf, every key
\* and the array order and length unchanged: {a: "{{x}}", b: 3} with x = "v"
\* yields {a: "v", b: 3}.
C18_OnlyStringLeavesSubstituted ==
    (call.op = "replaceVariablesInObject" /\ ~call.out.threw) =>
        /\ Preserved(variables, call.obj, call.out.value)
        /\ (/\ call.obj = Obj(A :> Str(Marker(X)) @@ B :> Num(3))
            /\ HasVariable(variables, X)
            /\ GetVariable(variables, X) = Str(<<"v">>))
              => call.out.value = Obj(A :> Str(<<"v">>) @@ B :> Num(3))

\* C18 witness: a nested object with a marker of the bound name x inside an
\* array and a null leaf came back with the marker replaced and the null kept.
C18_Witness ==
    /\ call.op = "replaceVariablesInObject"
    /\ ~call.out.threw
    /\ HasVariable(variables, X)
    /\ GetVariable(variables, X) = Str(<<"v">>)
    /\ call.obj = Obj(A :> Arr(<<Str(Marker(Y)), Obj(B :> Str(Marker(X)))>>) @@ B :> Null)
    /\ call.out.value.f[A].a[2] = Obj(B :> Str(<<"v">>))
    /\ call.out.value.f[B] = Null

(***************************************************************************)
(* Properties of extractVariables (under SpecCalls).                       *)
(***************************************************************************)
\* The dot-separated segments of the paths the extraction rules use.
SegmentsOf(path) ==
    IF path = <<"u", ".", "i">> THEN <<U, I>>
    ELSE IF path = <<"0", ".", "i">> THEN <<(<<"0">>), I>>
    ELSE IF path = <<"u", ".", ".", "i">> THEN <<U, <<>>, I>>
    ELSE <<path>>

\* The segment exists in the value: a key of an object, an index of an array.
SegmentExists(value, segment) ==
    \/ value.t = "object" /\ segment \in DOMAIN value.f
    \/ value.t = "array" /\ segment = <<"0">> /\ Len(value.a) >= 1

SegmentValue(value, segment) ==
    IF value.t = "object" THEN value.f[segment] ELSE value.a[1]

\* Every segment exists, each in the value found at the one before.
RECURSIVE EverySegmentExists(_, _)
EverySegmentExists(value, segments) ==
    \/ segments = <<>>
    \/ /\ SegmentExists(value, Head(segments))
       /\ EverySegmentExists(SegmentValue(value, Head(segments)), Tail(segments))

RECURSIVE ValueAlong(_, _)
ValueAlong(value, segments) ==
    IF segments = <<>> THEN value
    ELSE ValueAlong(SegmentValue(value, Head(segments)), Tail(segments))

\* The rule finds a value in the response of the call, and the value it finds.
Finds(rule) ==
    IF rule.from = "response"
    THEN EverySegmentExists(call.responseData, SegmentsOf(rule.path))
    ELSE call.headers.t = "object" /\ rule.path \in DOMAIN call.headers.f

Found(rule) ==
    IF rule.from = "response"
    THEN ValueAlong(call.responseData, SegmentsOf(rule.path))
    ELSE call.headers.f[rule.path]

\* C19: for a rule {name, path, from: response} extractVariables traverses the
\* response body along the dot-separated segments of path and, when every
\* segment exists, binds name to the value found there; for from: headers it
\* binds name to the header looked up directly under path. (Of two rules for
\* one name the later binding stands.)
C19_BindsValueAtPath ==
    call.op = "extractVariables" =>
        \A k \in DOMAIN call.rules :
            (/\ Finds(call.rules[k])
             /\ \A j \in (k + 1)..Len(call.rules) :
                   call.rules[j].name = call.rules[k].name => ~Finds(call.rules[j]))
              => /\ HasVariable(variables, call.rules[k].name)
                 /\ GetVariable(variables, call.rules[k].name) = Found(call.rules[k])

\* C19 witness: the rule {x, "u.i", response} has bound x, which had no
\* binding, to the "v" found at u.i, and the rule {y, "t", headers} has bound
\* y to the header t.
C19_Witness ==
    /\ call.op = "extractVariables"
    /\ call.env = <<>>
    /\ call.rules = <<[name |-> X, path |-> <<"u", ".", "i">>, from |-> "response"],
                      [name |-> Y, path |-> T, from |-> "headers"]>>
    /\ call.responseData = Obj(U :> Obj(I :> Str(<<"v">>)))
    /\ GetVariable(variables, X) = Str(<<"v">>)
    /\ GetVariable(variables, Y) = Str(<<"v">>)

\* C20: a rule whose path has a missing segment, or whose header is absent,
\* produces no binding and raises no error: a name none of whose rules finds a
\* value keeps exactly the binding it had (or none), and the rules after such
\* a rule are still evaluated.
C20_MissingSegmentSkipsRule ==
    call.op = "extractVariables" =>
        /\ \A name \in {X, Y, ParenName} :
              (\A k \in DOMAIN call.rules :
                    call.rules[k].name = name => ~Finds(call.rules[k]))
                => /\ HasVariable(variables, name) = HasVariable(call.env, name)
                   /\ GetVariable(variables, name) = GetVariable(call.env, name)
        /\ \A k \in DOMAIN call.rules :
              (/\ k > 1
               /\ ~Finds(call.rules[k - 1])
               /\ call.rules[k - 1].name # call.rules[k].name
               /\ Finds(call.rules[k]))
                => GetVariable(variables, call.rules[k].name) = Found(call.rules[k])

\* C20 witness: the rule for x met a null at u, so that segment i is missing:
\* x kept the binding it had, and the rule after it bound y to the header t.
C20_Witness ==
    /\ call.op = "extractVariables"
    /\ call.env = <<[key |-> X, value |-> Num(3)]>>
    /\ call.rules = <<[name |-> X, path |-> <<"u", ".", "i">>, from |-> "response"],
                      [name |-> Y, path |-> T, from |-> "headers"]>>
    /\ call.responseData = Obj(U :> Null)
    /\ variables = <<[key |-> X, value |-> Num(3)],
                     [key |-> Y, value |-> Str(<<"v">>)]>>

(***************************************************************************)
(* Properties of the Variable Environment across runs (under SpecRuns).    *)
(***************************************************************************)
\* The url of the requests invocation e sends while this.variables is what
\* it is now.
UrlSent(e) == ResolveRequest(processedEndpoints[e], variables).value.url

\* C21: the Variable Environment is run-scoped: it is empty at the start of
\* every call to run, so that in a second run no request is substituted with
\* a binding extracted during an earlier run: a request sent before any
\* extraction of the second run carries its url as configured.
C21_EmptyAtRunStart ==
    call.op = "run" =>
        /\ (runpc = "resolve" /\ rpc = "start") => variables = <<>>
        /\ \A e \in EpIds :
              (runpc = "await" /\ epIdx = e /\ InFlight(e) # {} /\ extractions[e] = 0)
                => UrlSent(e) = processedEndpoints[e].url

(***************************************************************************)
(* Properties of the statistics (under Spec).                              *)
(***************************************************************************)
\* C22: every EndpointStats produced satisfies
\* 0 <= successfulRequests <= totalRequests,
\* failedRequests = totalRequests - successfulRequests, and successRate =
\* successfulRequests / totalRequests within [0, 1] (0 when totalRequests = 0).
C22_CountsAndSuccessRate ==
    \A k \in DOMAIN runResults :
        LET stats == runResults[k]
        IN  /\ 0 <= stats.successfulRequests
            /\ stats.successfulRequests <= stats.totalRequests
            /\ stats.failedRequests = stats.totalRequests - stats.successfulRequests
            /\ stats.successRate.den > 0
            /\ stats.successRate.num * stats.totalRequests
                  = stats.successfulRequests * stats.successRate.den
            /\ 0 <= stats.successRate.num
            /\ stats.successRate.num <= stats.successRate.den
            /\ stats.totalRequests = 0 => stats.successRate.num = 0

\* C22 witness: one endpoint of the run made no request at all, the other
\* made two requests of which one succeeded.
C22_Witness ==
    /\ Len(runResults) = 2
    /\ runResults[1].totalRequests = 0
    /\ runResults[1].successRate = Zero
    /\ runResults[2].totalRequests = 2
    /\ runResults[2].successfulRequests = 1
    /\ runResults[2].successRate = Ratio(1, 2)

(***************************************************************************)
(* Properties of the response time statistics (under SpecStats).           *)
(***************************************************************************)
\* The outcomes of the call whose latency is positive, and their latencies
\* added up.
PositiveLatency == {k \in DOMAIN call.results : call.results[k].responseTime > 0}

RECURSIVE LatencySum(_)
LatencySum(S) ==
    IF S = {} THEN 0
    ELSE LET k == CHOOSE j \in S : TRUE
         IN  call.results[k].responseTime + LatencySum(S \ {k})

OutcomeErrors ==
    {results[epIdx][k].error :
        k \in {j \in DOMAIN results[epIdx] : ~results[epIdx][j].success}}

\* C24: on completion of an endpoint, EndpointStats.errors is the set of
\* distinct error messages of that endpoint's failed outcomes: every error
\* message recorded in one of its outcomes appears in errors, exactly once.
C24_ErrorsOfFailedOutcomes ==
    Returning =>
        LET stats == EndpointResultOf(processedEndpoints[epIdx], results[epIdx],
                                      errors[epIdx])
        IN  /\ {stats.errors[k] : k \in DOMAIN stats.errors} = OutcomeErrors
            /\ Len(stats.errors) = Cardinality(OutcomeErrors)

(***************************************************************************)
(* Properties of the summary (under Spec).                                 *)
(***************************************************************************)
\* The values of one field of the EndpointStats with indices in S, added up.
RECURSIVE TotalOf(_, _)
TotalOf(field, S) ==
    IF S = {} THEN 0
    ELSE LET k == CHOOSE j \in S : TRUE
         IN  runResults[k][field] + TotalOf(field, S \ {k})

\* C25: in every result returned by run, RunSummary.totalRequests,
\* totalSuccessful and totalFailed equal the sums of the corresponding fields
\* over all EndpointStats in results, and
\* totalSuccessful + totalFailed = totalRequests.
C25_SummaryIsSum ==
    runpc = "done" =>
        /\ summary.totalRequests = TotalOf("totalRequests", DOMAIN runResults)
        /\ summary.totalSuccessful = TotalOf("successfulRequests", DOMAIN runResults)
        /\ summary.totalFailed = TotalOf("failedRequests", DOMAIN runResults)
        /\ summary.totalSuccessful + summary.totalFailed = summary.totalRequests

\* C25 witness: run has returned the summary of two endpoints that made two
\* requests each, with successes and failures at both.
C25_Witness ==
    /\ runpc = "done"
    /\ Len(runResults) = 2
    /\ \A k \in 1..2 :
          /\ runResults[k].successfulRequests = 1
          /\ runResults[k].failedRequests = 1
    /\ summary = [totalRequests |-> 4, totalSuccessful |-> 2, totalFailed |-> 2]

(***************************************************************************)
(* Properties of the validation (under SpecValidate).                      *)
(***************************************************************************)
\* C26: a configuration defect is raised before the run starts: when
\* ConfigValidator.validate rejects the config, run throws without having
\* resolved dependencies, sent any request or changed the Variable
\* Environment.
C26_RejectedBeforeRunStarts ==
    (call.op = "validate" /\ call.out.threw) =>
        /\ runpc = "threw"
        /\ rpc = "start"
        /\ resolved = <<>>
        /\ processedEndpoints = <<>>
        /\ \A e \in EpIds : started[e] = 0 /\ results[e] = <<>> /\ InFlight(e) = {}
        /\ runResults = <<>>
        /\ variables = <<>>

\* C26 witness: run has thrown on a config of two endpoints of the same name.
C26_Witness ==
    /\ runpc = "threw"
    /\ Len(endpoints) = 2
    /\ endpoints[1].name = endpoints[2].name
    /\ call.out = Threw("Duplicate endpoint name")

\* C27: every config that ConfigValidator.validate returns has a non-empty
\* endpoints list with pairwise distinct endpoint names, and every dependency
\* name of every endpoint references an existing endpoint other than the
\* endpoint itself.
C27_ValidatedConfigWellFormed ==
    (call.op = "validate" /\ ~call.out.threw) =>
        LET config == call.out.value
        IN  /\ config = endpoints
            /\ Len(config) >= 1
            /\ \A j, k \in DOMAIN config : config[j].name = config[k].name => j = k
            /\ \A k \in DOMAIN config : \A dep \in config[k].dependencies :
                  /\ dep # config[k].name
                  /\ \E j \in DOMAIN config : j # k /\ config[j].name = dep

\* C27 witness: validate returned a config of two endpoints that depend on
\* each other, and run went on to its end.
C27_Witness ==
    /\ call.op = "validate"
    /\ ~call.out.threw
    /\ Len(endpoints) = 2
    /\ endpoints[1].dependencies = {endpoints[2].name}
    /\ endpoints[2].dependencies = {endpoints[1].name}
    /\ runpc = "done"

(***************************************************************************)
(* Properties of the request delay and the throttle (under SpecPolicy).    *)
(***************************************************************************)
\* The first of the options that is set, 0 when none is.
FirstSet(endpointOption, globalOption) ==
    IF endpointOption # Undefined THEN endpointOption.n
    ELSE IF globalOption # Undefined THEN globalOption.n
    ELSE 0

\* C28: the delay enforced between request starts of an endpoint is that
\* endpoint's own requestDelay when it sets one, otherwise
\* global.requestDelay, otherwise 0: a request that would start sooner after
\* the last one waits for the rest of that delay.
C28_EndpointDelayOverrides ==
    call.op = "delayNeeded" =>
        LET delay == FirstSet(call.endpointDelay, call.globalDelay)
        IN  call.out = IF call.elapsed < delay THEN delay - call.elapsed ELSE 0

\* C29: the throttle slept after each request of an endpoint is the
\* endpoint's own throttle whenever the endpoint specifies one, including the
\* value 0 (no sleep), and the global throttle only when the endpoint
\* specifies none.
C29_EndpointThrottleOverrides ==
    call.op = "throttle" =>
        call.out = FirstSet(call.endpointThrottle, call.globalThrottle)

(***************************************************************************)
(* Properties of sanitizeForLogging (under SpecCalls).                     *)
(***************************************************************************)
\* The names of LogNames that match a sensitive pattern.
SensitiveNames ==
    {<<"a", "u", "t", "h", "T", "o", "k", "e", "n">>,
     <<"A", "P", "I", "_", "K", "E", "Y">>,
     <<"S", "e", "s", "s", "i", "o", "n">>}

\* What the sanitizeForLogging of the call's class gives for another value.
OutputFor(value) ==
    IF call.class = "Glockit"
    THEN SanitizeForLogging(value, call.variableName)
    ELSE LegacySanitizeForLogging(value, call.variableName)

\* sanitizeForLogging of this class has been called for a text that is the
\* value of a variable with a sensitive name.
SensitiveLogged(class) ==
    /\ call.op = "sanitizeForLogging"
    /\ call.class = class
    /\ call.variableName \in SensitiveNames
    /\ call.value.t = "string"

\* The text produced is the text produced for every other string value.
RevealsNothing ==
    \A other \in {value \in LogValues : value.t = "string"} : OutputFor(other) = call.out

GlockitRevealsNothing == SensitiveLogged("Glockit") => RevealsNothing

\* C30: for a variable whose name matches a sensitive pattern, the text
\* produced by sanitizeForLogging is the same for any two string values: it
\* reveals no character of the value; for Glockit.sanitizeForLogging and for
\* BarbariansBench.sanitizeForLogging.
C30_SensitiveValueNotRevealed ==
    /\ GlockitRevealsNothing
    /\ SensitiveLogged("BarbariansBench") => RevealsNothing

(***************************************************************************)
(* C31: an engine constructed without a delay argument applies no delay    *)
(* between requests: its requestDelay is 0, and the head of the worker     *)
(* loop asks for no sleep however soon after the last request it runs.     *)
(* The constructor's default is 1000, so this is violated.                 *)
(***************************************************************************)
C31_NoDelayByDefault ==
    (call.op = "constructor" /\ call.delay = Undefined) =>
        /\ requestDelay = 0
        /\ \A elapsed \in 0..MaxTime : DelayNeeded(clock + elapsed, clock) = 0

(***************************************************************************)
(* The endpoint specifications during runs (under SpecRuns).               *)
(***************************************************************************)
\* The endpoint of the configuration that is called name.
Configured(name) == endpoints[PosOf(endpoints, name)]

\* This step sends a request of worker w of invocation e.
Dispatched(e, w) ==
    /\ wpc'[e][w] = "inflight"
    /\ wpc[e][w] # "inflight" \/ wtime'[e][w] # wtime[e][w]

\* C32: a run never mutates the endpoint specifications: no step changes the
\* endpoints of the configuration, the list run works through holds them as
\* they are configured, and every request that is sent carries the configured
\* url with its markers replaced by the bindings of the moment it is sent,
\* and the configured body.
C32_EndpointsNeverMutated ==
    [][/\ endpoints' = endpoints
       /\ \A k \in DOMAIN processedEndpoints' :
             processedEndpoints'[k] = Configured(processedEndpoints'[k].name)
       /\ \A e \in EpIds, w \in WorkerIds :
             Dispatched(e, w) =>
                 LET endpoint == Configured(processedEndpoints[e].name)
                 IN  /\ ~sent'[e][w].threw
                     /\ sent'[e][w].value.url
                            = ReplaceVariables(variables', endpoint.url).value
                     /\ sent'[e][w].value.data = endpoint.body]_vars

\* C32 witness: the second request of the endpoint is under way with the
\* value the first response bound in place of the marker, and the endpoint
\* of the configuration still has the marker in its url.
C32_Witness ==
    /\ runpc = "await"
    /\ Len(results[1]) = 1
    /\ \E w \in WorkerIds :
          /\ wpc[1][w] = "inflight"
          /\ sent[1][w].value.url = <<"/", "u", "-", "1">>
    /\ endpoints[1].url = <<"/">> \o Marker(UserId)
    /\ processedEndpoints[1] = endpoints[1]

(***************************************************************************)
(* The number of outcomes of the count mode (under SpecBench).             *)
(***************************************************************************)
\* The fewest and the most outcomes the count mode records for endpoint:
\* maxRequests, and maxRequests + W - 1 with W = min(concurrent, maxRequests).
FewestOutcomes(endpoint) == MaxRequestsOf(endpoint, global)

MostOutcomes(endpoint) ==
    MaxRequestsOf(endpoint, global) + EffectiveConcurrent(endpoint, global) - 1

\* C33: in count mode the number of outcomes recorded for an endpoint never
\* exceeds maxRequests + W - 1, and when benchmarkEndpoint returns it is at
\* least maxRequests, under every interleaving of worker completions; the
\* totalRequests run records for the endpoint is within the same limits.
C33_CountWithinOvershoot ==
    ~UseDuration(global) =>
        /\ \A e \in Invocations :
              Len(results[e]) <= MostOutcomes(processedEndpoints[e])
        /\ Returning => Len(results[epIdx]) >= FewestOutcomes(processedEndpoints[epIdx])
        /\ \A k \in DOMAIN runResults :
              /\ runResults[k].totalRequests >= FewestOutcomes(processedEndpoints[k])
              /\ runResults[k].totalRequests <= MostOutcomes(processedEndpoints[k])

\* C33 witness: with maxRequests 2 and two workers benchmarkEndpoint is about
\* to return with three outcomes, the most the limits allow.
C33_Witness ==
    /\ ~UseDuration(global)
    /\ Returning
    /\ global.maxRequests = 2
    /\ spawned[epIdx] = 2
    /\ Len(results[epIdx]) = 3
    /\ MostOutcomes(processedEndpoints[epIdx]) = 3

(***************************************************************************)
(* The moment of dispatch in duration mode (under SpecBench).              *)
(***************************************************************************)
\* C34: in duration mode no request is dispatched once the duration has
\* elapsed: every request under way was sent less than duration after the
\* endpoint started, also when its worker slept for the request delay
\* between the stop-condition check and the dispatch. The worker does not
\* check again after that sleep, so this is violated.
C34_NoDispatchAfterDuration ==
    UseDuration(global) =>
        \A e \in Invocations : \A w \in InFlight(e) :
            wtime[e][w] - startTime[e] < global.duration

(***************************************************************************)
(* The changes of the Variable Environment during a run (under             *)
(* SpecAnswers).                                                           *)
(***************************************************************************)
\* The names whose binding this step sets, changes or removes.
ChangedNames ==
    {name \in {variables[k].key : k \in DOMAIN variables}
                \cup {variables'[k].key : k \in DOMAIN variables'} :
        \/ HasVariable(variables, name) # HasVariable(variables', name)
        \/ /\ HasVariable(variables, name)
           /\ GetVariable(variables, name) # GetVariable(variables', name)}

\* This step records a successful outcome of an endpoint with extraction
\* rules that declare every name of S.
SuccessDeclaring(S) ==
    \E e \in Invocations :
        LET endpoint == processedEndpoints[e]
        IN  /\ Len(results'[e]) = Len(results[e]) + 1
            /\ results'[e][Len(results'[e])].success
            /\ Len(endpoint.variables) > 0
            /\ S \subseteq {endpoint.variables[k].name : k \in DOMAIN endpoint.variables}

\* C35: the Variable Environment changes only when a successful response of
\* an endpoint that declares extraction rules completes, and then only names
\* declared in that endpoint's rules change; every other step (a failed
\* outcome, a dispatch with its substitution, the statistics, an endpoint
\* without rules) leaves every binding as it is, and no step removes a
\* binding.
C35_OnlyDeclaredNamesChange ==
    [][/\ ChangedNames # {} => SuccessDeclaring(ChangedNames)
       /\ \A k \in DOMAIN variables : HasVariable(variables', variables[k].key)]_vars

\* C35 witness: the endpoint with the rule for userId has recorded a
\* successful response with id u-1 and then a failed response whose body has
\* id u-0, and userId is still bound to u-1.
C35_Witness ==
    /\ epIdx = 1
    /\ Len(results[1]) = 2
    /\ results[1][1].success
    /\ results[1][1].data = Obj(IdPath :> Str(<<"u", "-", "1">>))
    /\ ~results[1][2].success
    /\ results[1][2].data = Obj(IdPath :> Str(<<"u", "-", "0">>))
    /\ variables = <<[key |-> UserId, value |-> Str(<<"u", "-", "1">>)]>>

(***************************************************************************)
(* The resolver's order beside a dependency cycle (under SpecChains).      *)
(***************************************************************************)
\* The number of endpoints that are on a cycle or depend on one.
StuckCount == Cardinality(Stuck(endpoints))

\* C36: for every input list, with or without a dependency cycle, every
\* endpoint whose transitive dependencies include no member of a cycle is in
\* the output after all of its dependencies and before the fallback part;
\* only the members of a cycle and the endpoints that depend on them are
\* placed in the fallback part at the end.
C36_OrderBesideCycle ==
    rpc = "done" =>
        \A k \in DOMAIN endpoints :
            LET y == PosOf(processedEndpoints, endpoints[k].name)
            IN  IF k \in Stuck(endpoints)
                THEN y > Len(endpoints) - StuckCount
                ELSE /\ y >= 1
                     /\ y <= Len(endpoints) - StuckCount
                     /\ \A x \in endpoints[k].dependencies :
                           /\ PosOf(processedEndpoints, x) >= 1
                           /\ PosOf(processedEndpoints, x) < y

\* C36 witness: A and B depend on each other, C depends on D and is listed
\* before it: the output has D, then C, then the cycle in its input order.
C36_Witness ==
    /\ rpc = "done"
    /\ warned
    /\ Len(endpoints) = 4
    /\ endpoints[1].dependencies = {"B"}
    /\ endpoints[2].dependencies = {"A"}
    /\ endpoints[3].dependencies = {"D"}
    /\ endpoints[4].dependencies = {}
    /\ [k \in DOMAIN processedEndpoints |-> processedEndpoints[k].name]
          = <<"D", "C", "A", "B">>

(***************************************************************************)
(* Substitution and the order of the bindings (under SpecCalls).           *)
(***************************************************************************)
\* The Variable Environment with its entries in every order they can have
\* been bound in.
BindingOrders ==
    {[k \in DOMAIN variables |-> variables[order[k]]] :
        order \in {f \in [DOMAIN variables -> DOMAIN variables] :
                      \A j, k \in DOMAIN variables : f[j] = f[k] => j = k}}

\* C37: text introduced by a substitution is not scanned for markers, so
\* that the result of replaceVariables is the same for every order in which
\* the variables were bound. The markers are replaced one variable after
\* the other, each on the result of the one before, so a marker that a value
\* brings in is replaced when its variable comes later in the Map: violated.
C37_InsertedTextNotScanned ==
    (call.op = "replaceVariables" /\ ~call.out.threw) =>
        \A env \in BindingOrders : ReplaceVariables(env, call.text) = call.out

(***************************************************************************)
(* Termination of run (under SpecLive).                                    *)
(***************************************************************************)
\* C38: in count mode, when every request is answered and workers and timers
\* are scheduled fairly, run eventually returns: resolveDependencies comes
\* to its end on every input, the workers of every endpoint finish, and no
\* worker is left waiting.
C38_RunReturns ==
    <>(/\ runpc = "done"
       /\ rpc = "done"
       /\ Len(runResults) = Len(endpoints)
       /\ \A e \in EpIds : Active(e) = {})

\* C38 witness: run has returned for the two endpoints that depend on each
\* other, after the resolver's warning, with two workers per endpoint that
\* made three requests for each of them.
C38_Witness ==
    /\ runpc = "done"
    /\ warned
    /\ Len(runResults) = 2
    /\ global.concurrent = 2
    /\ global.maxRequests = 2
    /\ \A k \in DOMAIN runResults : runResults[k].totalRequests = 3

(***************************************************************************)
(* The batches of the legacy engine (under SpecBatch).                     *)
(***************************************************************************)
\* The outcomes recorded when the current batch was sent.
OutcomesBeforeBatch == started[epIdx] - spawned[epIdx]

\* The legacy benchmarkEndpoint of the current endpoint is about to return.
BatchReturning ==
    /\ runpc = "while"
    /\ ~ShouldContinue(processedEndpoints[epIdx], global, results[epIdx],
                       startTime[epIdx], clock)

\* C39: in count mode the legacy batch scheduler produces exactly maxRequests
\* outcomes for every concurrency level: a batch holds at most
\* min(concurrent, maxRequests - outcomes so far) requests, every request
\* under way belongs to the current batch (the batches before it are
\* complete), the count never exceeds maxRequests, and benchmarkEndpoint
\* returns with exactly maxRequests outcomes.
C39_BatchesGiveExactCount ==
    (~UseDuration(global) /\ runpc \in {"while", "await", "sleep"}) =>
        LET maxRequests == MaxRequestsOf(processedEndpoints[epIdx], global)
        IN  /\ spawned[epIdx] <= Min(ConfiguredConcurrent(global),
                                     maxRequests - OutcomesBeforeBatch)
            /\ OutcomesBeforeBatch + spawned[epIdx]
                  = Len(results[epIdx]) + Cardinality(InFlight(epIdx))
            /\ Len(results[epIdx]) >= OutcomesBeforeBatch
            /\ Len(results[epIdx]) <= maxRequests
            /\ BatchReturning => Len(results[epIdx]) = maxRequests

\* C39 witness: with maxRequests 3 and concurrent 2 the legacy
\* benchmarkEndpoint is about to return with three outcomes, after a batch of
\* two requests and a batch of one.
C39_Witness ==
    /\ BatchReturning
    /\ ~UseDuration(global)
    /\ global.maxRequests = 3
    /\ global.concurrent = 2
    /\ spawned[epIdx] = 1
    /\ started[epIdx] = 3
    /\ Len(results[epIdx]) = 3

====
